---------------------------- MODULE Spec2Model ----------------------------
(***************************************************************************)
(* Verification model of the simulated trading ledger of aitrade.          *)
(*                                                                         *)
(*   PortfolioManager  src/backtesting/portfolio_manager.py                *)
(*   StockBacktester   src/scripts/backtest_stocks.py                      *)
(*   RiskManager       src/live_trading/risk_manager.py                    *)
(*                                                                         *)
(* Money and prices are Python floats in the source.  The model computes   *)
(* with exact numbers: cash, prices and commissions are integers, and      *)
(* every value that comes out of a division (avg_price, pnl, total_return) *)
(* is an exact fraction [num, den] in lowest terms.  Rounding of IEEE      *)
(* doubles is not modelled.                                                *)
(***************************************************************************)
EXTENDS Integers, Sequences, FiniteSets, TLC

(***************************************************************************)
(* Bounds of the model.  Amounts are small so that a few trades exhaust    *)
(* the cash; the source's default capital is config.INITIAL_CAPITAL.       *)
(***************************************************************************)
Capital        == 3   \* initial_capital handed to the constructor
MaxQty         == 2   \* order quantities are 0..MaxQty
MaxTrades      == 3   \* cap on the trade log in Spec
MaxPortfolioTrades == 2   \* cap on the trade log in SpecPortfolio
MaxDailyTrades == 1   \* cap on the trade log in SpecDaily
MaxSnapshots   == 1   \* cap on the snapshot logs in SpecDaily
MaxBacktesterTrades == 3  \* cap on the trade log in SpecBacktester

COMMISSION == 0       \* config.COMMISSION
INITIAL_CAPITAL == 10000  \* config.INITIAL_CAPITAL
MAX_POSITIONS == 5        \* config.MAX_POSITIONS

Symbols     == {"AAPL", "MSFT"}
OneSymbol   == {"AAPL"}
Quantities  == 0..MaxQty
Prices      == {1, 2}
Commissions == {COMMISSION, 2}

\* A datetime is [day, time].  The ledger stores the timestamps it is given
\* and never compares or computes with them, so its caller passes one value.
Timestamps == {[day |-> 1, time |-> 0]}
\* datetime.date()
date(timestamp) == timestamp.day
\* A datetime.date is [day]: it has no time of day
Date(day) == [day |-> day]
\* datetime.combine(current_date, datetime.min.time())
combine(current_date) == [day |-> current_date.day, time |-> 0]
\* whether an object is a datetime, which has the date() method
IsDatetime(timestamp) == "time" \in DOMAIN timestamp

\* the dictionaries a caller can pass as current_prices
PriceMaps(universe) == UNION {[S -> Prices] : S \in SUBSET universe}

(***************************************************************************)
(* Exact fractions.                                                        *)
(***************************************************************************)
Abs(n) == IF n < 0 THEN 0 - n ELSE n

RECURSIVE GCD(_, _)
GCD(a, b) == IF b = 0 THEN a ELSE GCD(b, a % b)

\* n / d for d # 0, in lowest terms with a positive denominator
Frac(n, d) ==
    LET g == GCD(Abs(n), Abs(d))
        s == IF d < 0 THEN 0 - 1 ELSE 1
    IN  [num |-> (s * n) \div g, den |-> (s * d) \div g]

Num(n)         == [num |-> n, den |-> 1]
FracAdd(a, b)  == Frac(a.num * b.den + b.num * a.den, a.den * b.den)
FracSub(a, b)  == Frac(a.num * b.den - b.num * a.den, a.den * b.den)
FracMul(a, b)  == Frac(a.num * b.num, a.den * b.den)
FracDiv(a, b)  == Frac(a.num * b.den, a.den * b.num)
FracPos(a)     == a.num > 0
FracLt(a, b)   == a.num * b.den < b.num * a.den
FracLe(a, b)   == ~FracLt(b, a)
FracMax(a, b)  == IF FracLt(a, b) THEN b ELSE a
FracMin(a, b)  == IF FracLt(b, a) THEN b ELSE a
FracAbs(a)     == [num |-> Abs(a.num), den |-> a.den]

(***************************************************************************)
(* OrderType, Position, Trade.                                             *)
(***************************************************************************)
OrderType == {"BUY", "SELL", "HOLD"}

\* Position(...) as the dataclass constructs it: both pnl fields default to 0
Position(symbol, quantity, avg_price, current_price, entry_date) ==
    [symbol         |-> symbol,
     quantity       |-> quantity,
     avg_price      |-> avg_price,
     current_price  |-> current_price,
     entry_date     |-> entry_date,
     unrealized_pnl |-> Num(0),
     realized_pnl   |-> Num(0)]

\* the faulty variant that recomputes the pnl and forgets the mark
update_pnl_only(pos, price) ==
    [pos EXCEPT !.unrealized_pnl = FracMul(FracSub(Num(price), pos.avg_price),
                                           Num(pos.quantity))]

\* Position.update_price
update_price(pos, price) ==
    [pos EXCEPT !.current_price  = price,
                !.unrealized_pnl = FracMul(FracSub(Num(price), pos.avg_price),
                                           Num(pos.quantity))]

\* Position.market_value
market_value(pos) == pos.current_price * pos.quantity

Trade(symbol, order_type, quantity, price, timestamp, commission, pnl) ==
    [symbol     |-> symbol,
     order_type |-> order_type,
     quantity   |-> quantity,
     price      |-> price,
     timestamp  |-> timestamp,
     commission |-> commission,
     pnl        |-> pnl]

(***************************************************************************)
(* The state: one PortfolioManager, the last call made on it, what the     *)
(* call handed back and the line it wrote to the logger.                   *)
(***************************************************************************)
VARIABLES
    initial_capital,    \* PortfolioManager.initial_capital
    cash,               \* PortfolioManager.cash
    positions,          \* PortfolioManager.positions : symbol -> Position
    trades,             \* PortfolioManager.trades
    daily_values,       \* PortfolioManager.daily_values
    portfolio_history,  \* PortfolioManager.portfolio_history
    total_commission,   \* PortfolioManager.total_commission
    total_trades,       \* PortfolioManager.total_trades
    winning_trades,     \* PortfolioManager.winning_trades
    losing_trades,      \* PortfolioManager.losing_trades
    backtester,         \* one StockBacktester object, as a record
    risk,               \* one RiskManager object, as a record
    applied_filter,     \* the last non-empty market filter handed to it
    run,                \* the simulation loops: price data and how far they got
    trader,             \* one PaperTrader with the objects it works on
    polling,            \* one polling PaperTrader, its broker and its threads
    modules,            \* the objects made at module level
    wall_clock,         \* the day date.today() gives
    traders,            \* the PaperTraders of the runs made in one process
    call,               \* the last call: [op, args]
    ret,                \* what it handed back: [raised, value]
    logged              \* the logger line it wrote ("" if none)

ledger == <<initial_capital, cash, positions, trades, daily_values,
            portfolio_history, total_commission, total_trades,
            winning_trades, losing_trades>>
\* the state of the live traders
live == <<polling, modules, wall_clock, traders>>
vars == <<initial_capital, cash, positions, trades, daily_values,
          portfolio_history, total_commission, total_trades,
          winning_trades, losing_trades, backtester, risk, applied_filter,
          run, trader, polling, modules, wall_clock, traders,
          call, ret, logged>>

\* the PortfolioManager object as one record
Self ==
    [initial_capital   |-> initial_capital,
     cash              |-> cash,
     positions         |-> positions,
     trades            |-> trades,
     daily_values      |-> daily_values,
     portfolio_history |-> portfolio_history,
     total_commission  |-> total_commission,
     total_trades      |-> total_trades,
     winning_trades    |-> winning_trades,
     losing_trades     |-> losing_trades]

\* PortfolioManager.__init__
PortfolioManager(capital) ==
    [initial_capital   |-> capital,
     cash              |-> capital,
     positions         |-> << >>,
     trades            |-> << >>,
     daily_values      |-> << >>,
     portfolio_history |-> << >>,
     total_commission  |-> 0,
     total_trades      |-> 0,
     winning_trades    |-> 0,
     losing_trades     |-> 0]

\* the map d without key k (del d[k])
Del(d, k) == [x \in DOMAIN d \ {k} |-> d[x]]
\* the map d with d[k] = v (d[k] = v)
Put(d, k, v) == [x \in DOMAIN d \cup {k} |-> IF x = k THEN v ELSE d[x]]
\* the map d with the entries of extra set (d.update(extra))
With(d, extra) ==
    [x \in DOMAIN d \cup DOMAIN extra |->
        IF x \in DOMAIN extra THEN extra[x] ELSE d[x]]

\* What a call hands back: the object afterwards, the value returned and the
\* logger line it wrote ("" when it logs nothing).  A call that raises hands
\* back raised = TRUE and no value.
Returned(self, value, line) ==
    [self |-> self, raised |-> FALSE, value |-> value, line |-> line]
Raised(self) ==
    [self |-> self, raised |-> TRUE, value |-> FALSE, line |-> ""]

(***************************************************************************)
(* PortfolioManager._execute_buy.  With a held symbol and                  *)
(* pos.quantity + quantity = 0 the division total_cost_basis /             *)
(* total_quantity raises ZeroDivisionError before anything is assigned.    *)
(***************************************************************************)
\* total_cost = quantity * price + commission
total_cost(quantity, price, commission) == quantity * price + commission

\* the faulty variant that compares the cost with the starting capital
InsufficientCapital(self, cost) == self.initial_capital < cost

\* if self.cash < total_cost: return False
InsufficientCash(self, cost) == self.cash < cost

\* total_cost_basis = (pos.avg_price * pos.quantity) + (price * quantity)
total_cost_basis(pos, quantity, price) ==
    FracAdd(FracMul(pos.avg_price, Num(pos.quantity)), Num(price * quantity))

\* the held position after quantity more units bought at price
AddToPosition(pos, quantity, price) ==
    LET total_quantity == pos.quantity + quantity
    IN  [pos EXCEPT
           !.avg_price = FracDiv(total_cost_basis(pos, quantity, price),
                                 Num(total_quantity)),
           !.quantity  = total_quantity]

\* the faulty variant that debits the cash before it updates the position,
\* so that the ZeroDivisionError leaves the debit behind
_execute_buy_debit_first(self, symbol, quantity, price, timestamp, commission) ==
    LET cost    == total_cost(quantity, price, commission)
        held    == symbol \in DOMAIN self.positions
        pos     == self.positions[symbol]
        paid    == [self EXCEPT !.cash = self.cash - cost]
        created == Position(symbol, quantity, Num(price), price, date(timestamp))
        trade   == Trade(symbol, "BUY", quantity, price, timestamp, commission, Num(0))
    IN  IF InsufficientCash(self, cost)
        THEN Returned(self, FALSE, "buy_insufficient_cash")
        ELSE IF held /\ pos.quantity + quantity = 0
        THEN Raised(paid)
        ELSE Returned(
               [paid EXCEPT
                  !.positions = Put(self.positions, symbol,
                                    IF held THEN AddToPosition(pos, quantity, price)
                                            ELSE created),
                  !.trades = Append(self.trades, trade),
                  !.total_commission = self.total_commission + commission,
                  !.total_trades = self.total_trades + 1],
               TRUE, "buy_done")

_execute_buy(self, symbol, quantity, price, timestamp, commission) ==
    LET cost    == total_cost(quantity, price, commission)
        held    == symbol \in DOMAIN self.positions
        pos     == self.positions[symbol]
        created == Position(symbol, quantity, Num(price), price, date(timestamp))
        trade   == Trade(symbol, "BUY", quantity, price, timestamp, commission, Num(0))
    IN  IF InsufficientCash(self, cost)
        THEN Returned(self, FALSE, "buy_insufficient_cash")
        ELSE IF held /\ pos.quantity + quantity = 0
        THEN Raised(self)
        ELSE Returned(
               [self EXCEPT
                  !.positions = Put(self.positions, symbol,
                                    IF held THEN AddToPosition(pos, quantity, price)
                                            ELSE created),
                  !.cash = self.cash - cost,
                  !.trades = Append(self.trades, trade),
                  !.total_commission = self.total_commission + commission,
                  !.total_trades = self.total_trades + 1],
               TRUE, "buy_done")

(***************************************************************************)
(* PortfolioManager._execute_sell.                                         *)
(***************************************************************************)
\* the faulty variant that leaves the commission out of the realized pnl
pnl_before_commission(pos, quantity, price, commission) ==
    FracMul(FracSub(Num(price), pos.avg_price), Num(quantity))

\* pnl = (price - pos.avg_price) * quantity - commission
pnl(pos, quantity, price, commission) ==
    FracSub(FracMul(FracSub(Num(price), pos.avg_price), Num(quantity)),
            Num(commission))

\* the faulty variant that credits the gross amount
gross_proceeds(quantity, price, commission) == quantity * price

\* self.cash += (quantity * price - commission)
proceeds(quantity, price, commission) == quantity * price - commission

\* the faulty variant that keeps a sold-out position in the map
KeepInPositions(held_positions, symbol, quantity, gain) ==
    LET pos == held_positions[symbol]
    IN  Put(held_positions, symbol,
            [pos EXCEPT !.quantity     = pos.quantity - quantity,
                        !.realized_pnl = FracAdd(pos.realized_pnl, gain)])

\* the positions map after quantity units of symbol were sold for a profit of gain
TakeFromPositions(held_positions, symbol, quantity, gain) ==
    LET pos == held_positions[symbol]
    IN  IF pos.quantity = quantity
        THEN Del(held_positions, symbol)
        ELSE Put(held_positions, symbol,
                 [pos EXCEPT !.quantity     = pos.quantity - quantity,
                             !.realized_pnl = FracAdd(pos.realized_pnl, gain)])

\* if symbol not in self.positions: return False
NotHeld(self, symbol) == symbol \notin DOMAIN self.positions

\* if pos.quantity < quantity: return False
InsufficientQuantity(pos, quantity) == pos.quantity < quantity

_execute_sell(self, symbol, quantity, price, timestamp, commission) ==
    LET pos   == self.positions[symbol]
        gain  == pnl(pos, quantity, price, commission)
        trade == Trade(symbol, "SELL", quantity, price, timestamp, commission, gain)
    IN  IF NotHeld(self, symbol)
        THEN Returned(self, FALSE, "sell_not_held")
        ELSE IF InsufficientQuantity(pos, quantity)
        THEN Returned(self, FALSE, "sell_insufficient_quantity")
        ELSE Returned(
               [self EXCEPT
                  !.positions = TakeFromPositions(self.positions, symbol, quantity, gain),
                  !.cash = self.cash + proceeds(quantity, price, commission),
                  !.trades = Append(self.trades, trade),
                  !.total_commission = self.total_commission + commission,
                  !.total_trades = self.total_trades + 1,
                  !.winning_trades = IF FracPos(gain) THEN @ + 1 ELSE @,
                  !.losing_trades  = IF FracPos(gain) THEN @ ELSE @ + 1],
               TRUE, "sell_done")

(***************************************************************************)
(* PortfolioManager.execute_trade: dispatch on the order type; an          *)
(* exception of the callee is caught, logged and turned into False.        *)
(***************************************************************************)
\* the faulty variant that reports success whatever the callee returned
execute_trade_always_true(self, symbol, order_type, quantity, price, timestamp, commission) ==
    LET r == IF order_type = "BUY"
             THEN _execute_buy(self, symbol, quantity, price, timestamp, commission)
             ELSE IF order_type = "SELL"
             THEN _execute_sell(self, symbol, quantity, price, timestamp, commission)
             ELSE Returned(self, TRUE, "")
    IN  Returned(r.self, TRUE, r.line)

execute_trade(self, symbol, order_type, quantity, price, timestamp, commission) ==
    LET r == IF order_type = "BUY"
             THEN _execute_buy(self, symbol, quantity, price, timestamp, commission)
             ELSE IF order_type = "SELL"
             THEN _execute_sell(self, symbol, quantity, price, timestamp, commission)
             ELSE Returned(self, TRUE, "")
    IN  IF r.raised THEN Returned(r.self, FALSE, "trade_failed") ELSE r

(***************************************************************************)
(* PortfolioManager.get_portfolio_value: re-mark the positions that have a *)
(* price, then cash + sum of market values.                                *)
(***************************************************************************)
RECURSIVE SumOver(_, _)
SumOver(f, S) ==
    IF S = {} THEN 0
    ELSE LET k == CHOOSE x \in S : TRUE IN f[k] + SumOver(f, S \ {k})

get_portfolio_value(self, current_prices) ==
    LET marked == [s \in DOMAIN self.positions |->
                     IF s \in DOMAIN current_prices
                     THEN update_price(self.positions[s], current_prices[s])
                     ELSE self.positions[s]]
        positions_value == SumOver([s \in DOMAIN marked |-> market_value(marked[s])],
                                   DOMAIN marked)
    IN  Returned([self EXCEPT !.positions = marked],
                 self.cash + positions_value, "")

(***************************************************************************)
(* PortfolioManager.record_daily_value.  initial_capital = 0 makes         *)
(* total_return raise ZeroDivisionError after the positions were marked    *)
(* and before anything is appended; so does a timestamp that is a          *)
(* datetime.date, which has no date() method (AttributeError at            *)
(* 'date': timestamp.date()).                                              *)
(***************************************************************************)
record_daily_value(self, current_prices, timestamp) ==
    LET g == get_portfolio_value(self, current_prices)
        portfolio_value == g.value
        daily_record ==
            [date            |-> date(timestamp),
             timestamp       |-> timestamp,
             portfolio_value |-> portfolio_value,
             cash            |-> self.cash,
             positions_value |-> portfolio_value - self.cash,
             total_return    |-> Frac(portfolio_value - self.initial_capital,
                                      self.initial_capital),
             num_positions   |-> Cardinality(DOMAIN self.positions),
             num_trades      |-> Len(self.trades)]
    IN  IF ~IsDatetime(timestamp) \/ self.initial_capital = 0
        THEN Raised(g.self)
        ELSE Returned(
               [g.self EXCEPT
                  !.daily_values = Append(@, daily_record),
                  !.portfolio_history =
                      Append(@, [timestamp   |-> timestamp,
                                 total_value |-> portfolio_value,
                                 cash        |-> self.cash])],
               "None", "")

(***************************************************************************)
(* PortfolioManager.reset.  portfolio_history is not among the fields it   *)
(* clears.                                                                 *)
(***************************************************************************)
reset(self) ==
    Returned([self EXCEPT !.cash = self.initial_capital,
                          !.positions = << >>,
                          !.trades = << >>,
                          !.daily_values = << >>,
                          !.total_commission = 0,
                          !.total_trades = 0,
                          !.winning_trades = 0,
                          !.losing_trades = 0],
             "None", "reset_done")

(***************************************************************************)
(* StockBacktester of scripts/backtest_stocks.py: a second ledger, with no *)
(* commission, no logger and no try/except around its arithmetic.          *)
(***************************************************************************)
\* StockBacktester.__init__
StockBacktester(capital) ==
    [initial_capital  |-> capital,
     cash             |-> capital,
     positions        |-> << >>,
     trades           |-> << >>,
     portfolio_values |-> << >>,
     dates            |-> << >>]

\* StockBacktester.buy.  cash is debited before the position is touched, so
\* the ZeroDivisionError of new_shares = 0 leaves the debit in place.
buy(self, symbol, shares, price, date_) ==
    LET cost == shares * price
        paid == [self EXCEPT !.cash = @ - cost]
        held == symbol \in DOMAIN self.positions
        old  == self.positions[symbol]
        new_shares == old.shares + shares
        merged == [shares     |-> new_shares,
                   avg_price  |-> FracDiv(FracAdd(FracMul(Num(old.shares),
                                                          old.avg_price),
                                                  Num(shares * price)),
                                          Num(new_shares)),
                   entry_date |-> old.entry_date]
        opened == [shares |-> shares, avg_price |-> Num(price),
                   entry_date |-> date_]
        trade  == [date |-> date_, symbol |-> symbol, type |-> "BUY",
                   shares |-> shares, price |-> price, value |-> cost]
    IN  IF cost > self.cash THEN Returned(self, FALSE, "")
        ELSE IF held /\ new_shares = 0 THEN Raised(paid)
        ELSE Returned(
               [paid EXCEPT
                  !.positions = Put(@, symbol, IF held THEN merged ELSE opened),
                  !.trades = Append(@, trade)],
               TRUE, "")

\* if self.positions[symbol]['shares'] < shares: shares = held shares
shares_to_sell(held_shares, shares) ==
    IF held_shares < shares THEN held_shares ELSE shares

\* StockBacktester.sell.  pnl_pct divides by avg_price after the cash credit.
sell(self, symbol, shares, price, date_) ==
    IF symbol \notin DOMAIN self.positions THEN Returned(self, FALSE, "")
    ELSE LET pos      == self.positions[symbol]
             sold     == shares_to_sell(pos.shares, shares)
             value    == sold * price
             credited == [self EXCEPT !.cash = @ + value]
             gain     == FracMul(FracSub(Num(price), pos.avg_price), Num(sold))
             left     == pos.shares - sold
             trade    == [date |-> date_, symbol |-> symbol, type |-> "SELL",
                          shares |-> sold, price |-> price, value |-> value,
                          pnl |-> gain,
                          pnl_pct |-> FracDiv(FracSub(Num(price), pos.avg_price),
                                              pos.avg_price)]
         IN  IF pos.avg_price.num = 0 THEN Raised(credited)
             ELSE Returned(
                    [credited EXCEPT
                       !.positions =
                           IF left = 0 THEN Del(@, symbol)
                           ELSE Put(@, symbol, [pos EXCEPT !.shares = left]),
                       !.trades = Append(@, trade)],
                    TRUE, "")

(***************************************************************************)
(* RiskManager of live_trading/risk_manager.py.  Limits and percentages    *)
(* are exact fractions.  A dict argument is a function on the keys it      *)
(* holds; None and the empty dict, both falsy, are the empty function.     *)
(***************************************************************************)
MAX_POSITION_SIZE == Frac(1, 5)     \* config.MAX_POSITION_SIZE = 0.2
MIN_POSITION_SIZE == Frac(1, 100)   \* config.MIN_POSITION_SIZE = 0.01
STOP_LOSS_PCT     == Frac(3, 100)   \* config.STOP_LOSS_PCT = 0.03
TAKE_PROFIT_PCT   == Frac(1, 20)    \* config.TAKE_PROFIT_PCT = 0.05
MAX_DAILY_LOSS    == Frac(1, 50)    \* config.MAX_DAILY_LOSS = 0.02

\* bool(d) of a dict or None
Truthy(d) == DOMAIN d # {}
\* d.get(key, default)
get(d, key, default) == IF key \in DOMAIN d THEN d[key] ELSE default

\* RiskManager.__init__
RiskManager(capital) ==
    [initial_capital        |-> capital,
     current_capital        |-> Num(capital),
     base_max_position_size |-> MAX_POSITION_SIZE,
     base_stop_loss_pct     |-> STOP_LOSS_PCT,
     base_take_profit_pct   |-> TAKE_PROFIT_PCT,
     base_max_daily_loss    |-> MAX_DAILY_LOSS,
     max_position_size      |-> MAX_POSITION_SIZE,
     max_daily_loss         |-> MAX_DAILY_LOSS,
     stop_loss_pct          |-> STOP_LOSS_PCT,
     take_profit_pct        |-> TAKE_PROFIT_PCT,
     emergency_stop         |-> FALSE,
     market_filter_state    |-> [allow_trading |-> TRUE,
                                 position_size_multiplier |-> Num(1),
                                 reasons |-> << >>],
     market_blocked         |-> FALSE]

\* the faulty variant that caps the size and forgets the floor
adjusted_position_size_no_floor(self, multiplier) ==
    FracMin(FracMul(self.base_max_position_size, multiplier),
            self.base_max_position_size)

\* adjusted_position_size of apply_market_filter
adjusted_position_size(self, multiplier) ==
    FracMax(FracMin(FracMul(self.base_max_position_size, multiplier),
                    self.base_max_position_size),
            MIN_POSITION_SIZE)

\* max(self.base_max_daily_loss * multiplier, self.base_max_daily_loss * 0.5)
adjusted_daily_loss(self, multiplier) ==
    FracMax(FracMul(self.base_max_daily_loss, multiplier),
            FracMul(self.base_max_daily_loss, Frac(1, 2)))

\* RiskManager.apply_market_filter
apply_market_filter(self, filter_signal) ==
    IF ~Truthy(filter_signal) THEN Returned(self, "None", "")
    ELSE LET multiplier == FracMax(get(filter_signal, "position_size_multiplier",
                                       Num(1)), Num(0))
             blocked    == ~get(filter_signal, "allow_trading", TRUE)
         IN  Returned(
               [self EXCEPT
                  !.market_filter_state = filter_signal,
                  !.market_blocked      = blocked,
                  !.max_position_size   = adjusted_position_size(self, multiplier),
                  !.max_daily_loss      = adjusted_daily_loss(self, multiplier)],
               "None", IF blocked THEN "market_filter_blocks" ELSE "")

\* the faulty variant that looks at the emergency stop only
allows_trading_ignoring_market(self) ==
    Returned(self, ~self.emergency_stop, "")

\* RiskManager.allows_trading
allows_trading(self) ==
    Returned(self, ~self.market_blocked /\ ~self.emergency_stop, "")

\* RiskManager.reset_emergency_stop
reset_emergency_stop(self) ==
    Returned([self EXCEPT !.emergency_stop = FALSE], "None", "emergency_stop_reset")

\* RiskManager.update_capital
update_capital(self, new_capital) ==
    Returned([self EXCEPT !.current_capital = new_capital], "None", "capital_updated")

\* the limits adapt_to_market_conditions sets for a macro environment,
\* before the market filter's multiplier is applied
MacroLimits(self, env) ==
    IF env = "VERY_UNFAVORABLE"
    THEN [self EXCEPT
            !.max_position_size = FracMul(self.base_max_position_size, Frac(3, 10)),
            !.stop_loss_pct     = FracMul(self.base_stop_loss_pct, Frac(7, 10)),
            !.max_daily_loss    = FracMul(self.base_max_daily_loss, Frac(1, 2))]
    ELSE IF env = "UNFAVORABLE"
    THEN [self EXCEPT
            !.max_position_size = FracMul(self.base_max_position_size, Frac(1, 2)),
            !.stop_loss_pct     = FracMul(self.base_stop_loss_pct, Frac(85, 100))]
    ELSE IF env = "VERY_FAVORABLE"
    THEN [self EXCEPT
            !.max_position_size = FracMul(self.base_max_position_size, Frac(13, 10)),
            !.take_profit_pct   = FracMul(self.base_take_profit_pct, Frac(3, 2))]
    ELSE IF env = "FAVORABLE"
    THEN [self EXCEPT
            !.max_position_size = FracMul(self.base_max_position_size, Frac(11, 10)),
            !.take_profit_pct   = FracMul(self.base_take_profit_pct, Frac(6, 5))]
    ELSE [self EXCEPT
            !.max_position_size = self.base_max_position_size,
            !.stop_loss_pct     = self.base_stop_loss_pct,
            !.take_profit_pct   = self.base_take_profit_pct,
            !.max_daily_loss    = self.base_max_daily_loss]

\* RiskManager.adapt_to_market_conditions
adapt_to_market_conditions(self, market_filter, macro_env) ==
    IF ~Truthy(market_filter) THEN Returned(self, "None", "")
    ELSE LET stored == [self EXCEPT !.market_filter_state = market_filter]
             filter_multiplier == get(market_filter, "position_size_multiplier",
                                      Num(1))
             open_  == [stored EXCEPT !.market_blocked = FALSE]
             macro  == MacroLimits(open_, get(macro_env, "environment", "NEUTRAL"))
         IN  IF ~get(market_filter, "allow_trading", TRUE)
             THEN Returned([stored EXCEPT !.market_blocked = TRUE],
                           "None", "market_filter_blocks")
             ELSE IF Truthy(macro_env)
             THEN Returned(
                    [macro EXCEPT !.max_position_size =
                                      FracMul(@, filter_multiplier)],
                    "None", "")
             ELSE Returned(
                    [open_ EXCEPT !.max_position_size =
                                      FracMul(self.base_max_position_size,
                                              filter_multiplier)],
                    "None", "")

\* RiskAlert(level, ..., symbol, value, threshold); kind names the check that
\* raised it, which the source puts into the message
RiskAlert(level, kind, symbol, value, threshold) ==
    [level |-> level, kind |-> kind, symbol |-> symbol,
     value |-> value, threshold |-> threshold]

\* total_loss_pct = (self.initial_capital - portfolio_value) / self.initial_capital
total_loss_pct(self, portfolio_value) ==
    FracDiv(FracSub(Num(self.initial_capital), portfolio_value),
            Num(self.initial_capital))

\* if total_loss_pct > 0.20 / elif > 0.15 / elif > 0.10
DrawdownTier(loss_pct) ==
    IF FracLt(Frac(20, 100), loss_pct) THEN "CRITICAL"
    ELSE IF FracLt(Frac(15, 100), loss_pct) THEN "HIGH"
    ELSE IF FracLt(Frac(10, 100), loss_pct) THEN "MEDIUM"
    ELSE "NONE"

\* the threshold the alert of a drawdown tier carries
DrawdownThreshold(tier) ==
    IF tier = "CRITICAL" THEN Frac(20, 100)
    ELSE IF tier = "HIGH" THEN Frac(15, 100)
    ELSE Frac(10, 100)

\* the faulty variant that clears the flag when the loss is below the tier
_check_total_portfolio_risk_recovering(self, portfolio_value) ==
    IF self.initial_capital = 0 THEN Raised(self)
    ELSE LET loss_pct == total_loss_pct(self, portfolio_value)
             tier     == DrawdownTier(loss_pct)
             checked  == [self EXCEPT !.emergency_stop = (tier = "CRITICAL")]
         IN  IF tier = "NONE" THEN Returned(checked, << >>, "")
             ELSE Returned(checked,
                           <<RiskAlert(tier, "drawdown", "None", loss_pct,
                                       DrawdownThreshold(tier))>>,
                           "")

\* RiskManager._check_total_portfolio_risk
_check_total_portfolio_risk(self, portfolio_value) ==
    IF self.initial_capital = 0 THEN Raised(self)
    ELSE LET loss_pct == total_loss_pct(self, portfolio_value)
             tier     == DrawdownTier(loss_pct)
         IN  IF tier = "NONE" THEN Returned(self, << >>, "")
             ELSE Returned(
                    IF tier = "CRITICAL"
                    THEN [self EXCEPT !.emergency_stop = TRUE] ELSE self,
                    <<RiskAlert(tier, "drawdown", "None", loss_pct,
                                DrawdownThreshold(tier))>>,
                    "")

\* RiskManager._calculate_daily_loss: max(0, initial_capital - current_value)
_calculate_daily_loss(self, current_value) ==
    FracMax(Num(0), FracSub(Num(self.initial_capital), current_value))

\* if daily_loss > self.max_daily_loss / elif > self.max_daily_loss * 0.8
DailyLossTier(self, daily_loss) ==
    IF FracLt(self.max_daily_loss, daily_loss) THEN "CRITICAL"
    ELSE IF FracLt(FracMul(self.max_daily_loss, Frac(8, 10)), daily_loss)
    THEN "HIGH"
    ELSE "NONE"

\* RiskManager._check_daily_loss_risk
_check_daily_loss_risk(self, portfolio_value) ==
    LET daily_loss == _calculate_daily_loss(self, portfolio_value)
        tier       == DailyLossTier(self, daily_loss)
    IN  IF tier = "NONE" THEN Returned(self, << >>, "")
        ELSE Returned(
               IF tier = "CRITICAL"
               THEN [self EXCEPT !.emergency_stop = TRUE] ELSE self,
               <<RiskAlert(tier, "daily_loss", "None", daily_loss,
                           IF tier = "CRITICAL" THEN self.max_daily_loss
                           ELSE FracMul(self.max_daily_loss, Frac(8, 10)))>>,
               "")

\* positions.items(): the symbols of a dict in the order it yields them
RECURSIVE items(_)
items(S) ==
    IF S = {} THEN << >>
    ELSE LET k == CHOOSE x \in S : TRUE IN <<k>> \o items(S \ {k})

\* current_prices.get(symbol, position.current_price)
PriceOf(position, current_prices, symbol) ==
    get(current_prices, symbol, position.current_price)

\* the divisions of one pass of the loop of _check_position_risks raise
\* ZeroDivisionError
PositionCheckRaises(self, position) ==
    position.avg_price.num = 0 \/ self.current_capital.num = 0

\* one pass of the loop of _check_position_risks: stop-loss, take-profit and
\* position-size alerts of one symbol
PositionAlerts(self, symbol, position, current_price) ==
    LET loss_pct   == FracDiv(FracSub(position.avg_price, current_price),
                              position.avg_price)
        profit_pct == FracDiv(FracSub(current_price, position.avg_price),
                              position.avg_price)
        position_ratio == FracDiv(FracMul(current_price, Num(position.quantity)),
                                  self.current_capital)
    IN  (IF FracLt(self.stop_loss_pct, loss_pct)
         THEN <<RiskAlert("HIGH", "stop_loss", symbol, loss_pct,
                          self.stop_loss_pct)>>
         ELSE << >>)
        \o (IF FracLt(self.take_profit_pct, profit_pct)
            THEN <<RiskAlert("LOW", "take_profit", symbol, profit_pct,
                             self.take_profit_pct)>>
            ELSE << >>)
        \o (IF FracLt(self.max_position_size, position_ratio)
            THEN <<RiskAlert("MEDIUM", "position_size", symbol, position_ratio,
                             self.max_position_size)>>
            ELSE << >>)

RECURSIVE PositionAlertsOf(_, _, _, _)
PositionAlertsOf(self, positions_, current_prices, order) ==
    IF order = << >> THEN << >>
    ELSE LET symbol == Head(order)
         IN  PositionAlerts(self, symbol, positions_[symbol],
                            PriceOf(positions_[symbol], current_prices, symbol))
             \o PositionAlertsOf(self, positions_, current_prices, Tail(order))

\* RiskManager._check_position_risks
_check_position_risks(self, positions_, current_prices) ==
    IF \E symbol \in DOMAIN positions_ :
          PositionCheckRaises(self, positions_[symbol])
    THEN Raised(self)
    ELSE Returned(self,
                  PositionAlertsOf(self, positions_, current_prices,
                                   items(DOMAIN positions_)),
                  "")

\* the loop of _check_concentration_risk: the largest position ratio above
\* the running maximum, and the first symbol that has it
RECURSIVE MaxPositionRatio(_, _, _, _)
MaxPositionRatio(positions_, portfolio_value, order, best) ==
    IF order = << >> THEN best
    ELSE LET symbol == Head(order)
             position_ratio ==
                 FracDiv(FracMul(positions_[symbol].current_price,
                                 Num(positions_[symbol].quantity)),
                         portfolio_value)
         IN  MaxPositionRatio(positions_, portfolio_value, Tail(order),
                              IF FracLt(best.ratio, position_ratio)
                              THEN [ratio |-> position_ratio, symbol |-> symbol]
                              ELSE best)

\* RiskManager._check_concentration_risk
_check_concentration_risk(self, positions_, portfolio_value) ==
    IF ~Truthy(positions_) THEN Returned(self, << >>, "")
    ELSE IF portfolio_value.num = 0 THEN Raised(self)
    ELSE LET best == MaxPositionRatio(positions_, portfolio_value,
                                      items(DOMAIN positions_),
                                      [ratio |-> Num(0), symbol |-> "None"])
         IN  Returned(self,
                IF FracLt(Frac(3, 10), best.ratio)
                THEN <<RiskAlert("HIGH", "concentration", best.symbol,
                                 best.ratio, Frac(3, 10))>>
                ELSE IF FracLt(Frac(2, 10), best.ratio)
                THEN <<RiskAlert("MEDIUM", "concentration", best.symbol,
                                 best.ratio, Frac(2, 10))>>
                ELSE << >>,
                "")

RECURSIVE VolatilityAlertsOf(_, _, _)
VolatilityAlertsOf(positions_, current_prices, order) ==
    IF order = << >> THEN << >>
    ELSE LET symbol   == Head(order)
             position == positions_[symbol]
             daily_change ==
                 FracDiv(FracAbs(FracSub(PriceOf(position, current_prices, symbol),
                                         position.avg_price)),
                         position.avg_price)
         IN  (IF FracLt(Frac(10, 100), daily_change)
              THEN <<RiskAlert("MEDIUM", "volatility", symbol, daily_change,
                               Frac(10, 100))>>
              ELSE << >>)
             \o VolatilityAlertsOf(positions_, current_prices, Tail(order))

\* RiskManager._check_volatility_risk
_check_volatility_risk(self, positions_, current_prices) ==
    IF \E symbol \in DOMAIN positions_ : positions_[symbol].avg_price.num = 0
    THEN Raised(self)
    ELSE Returned(self,
                  VolatilityAlertsOf(positions_, current_prices,
                                     items(DOMAIN positions_)),
                  "")

\* RiskManager.check_portfolio_risk: the five checks in turn; an exception of
\* one of them leaves what the earlier ones assigned
check_portfolio_risk(self, portfolio_value, positions_, current_prices) ==
    LET total    == _check_total_portfolio_risk(self, portfolio_value)
        position == _check_position_risks(total.self, positions_, current_prices)
        daily    == _check_daily_loss_risk(position.self, portfolio_value)
        concentration ==
            _check_concentration_risk(daily.self, positions_, portfolio_value)
        volatility ==
            _check_volatility_risk(concentration.self, positions_, current_prices)
    IN  IF total.raised THEN Raised(total.self)
        ELSE IF position.raised THEN Raised(position.self)
        ELSE IF concentration.raised THEN Raised(concentration.self)
        ELSE IF volatility.raised THEN Raised(volatility.self)
        ELSE Returned(volatility.self,
                      total.value \o position.value \o daily.value
                        \o concentration.value \o volatility.value,
                      "")

(***************************************************************************)
(* BacktestEngine of backtesting/backtest_engine.py.  self.data maps each  *)
(* symbol that has rows to its DataFrame, here a function from the days    *)
(* that have a row to the row's CLOSE and SIGNAL.  The engine owns one     *)
(* PortfolioManager; no method of the loop catches an exception.           *)
(***************************************************************************)
\* int(x): truncation toward zero
FracInt(x) ==
    IF x.num >= 0 THEN x.num \div x.den ELSE 0 - ((0 - x.num) \div x.den)

\* sorted(all_dates)
RECURSIVE sorted(_)
sorted(S) ==
    IF S = {} THEN << >>
    ELSE LET least == CHOOSE x \in S : \A y \in S : x <= y
         IN  <<least>> \o sorted(S \ {least})

\* BacktestEngine._get_common_dates: every day on which some symbol has a
\* row, in increasing order (the data was collected for start_date..end_date)
_get_common_dates(data) ==
    sorted(UNION {DOMAIN data[symbol] : symbol \in DOMAIN data})

\* current_prices of _process_daily_signals: CLOSE of the day's row of every
\* symbol that has one
DayPrices(data, current_date) ==
    [symbol \in {x \in DOMAIN data : current_date.day \in DOMAIN data[x]} |->
        data[symbol][current_date.day].CLOSE]

\* PortfolioManager.calculate_position_size with the default risk_percentage:
\* int(self.cash * 0.95 * MAX_POSITION_SIZE / price), which raises for price 0
calculate_position_size(self, symbol, price) ==
    LET available_cash == FracMul(Num(self.cash), Frac(95, 100))
        position_value == FracMul(available_cash, MAX_POSITION_SIZE)
        quantity       == FracInt(FracDiv(position_value, Num(price)))
    IN  IF price = 0 THEN Raised(self)
        ELSE Returned(self, IF quantity > 0 THEN quantity ELSE 0, "")

\* PortfolioManager.get_position
get_position(self, symbol) ==
    IF symbol \in DOMAIN self.positions THEN self.positions[symbol] ELSE "None"

\* BacktestEngine._generate_trading_signal
_generate_trading_signal(self, signal_data, symbol) ==
    LET action == IF signal_data.SIGNAL = 1 THEN "BUY"
                  ELSE IF signal_data.SIGNAL = 0 - 1 THEN "SELL"
                  ELSE "HOLD"
        sized  == calculate_position_size(self, symbol, signal_data.CLOSE)
        quantity == IF action = "BUY" THEN sized.value
                    ELSE IF action = "SELL" /\ get_position(self, symbol) # "None"
                    THEN get_position(self, symbol).quantity
                    ELSE 0
    IN  IF action = "BUY" /\ sized.raised THEN Raised(self)
        ELSE Returned(self,
                      [symbol |-> symbol, action |-> action,
                       quantity |-> quantity, price |-> signal_data.CLOSE],
                      "")

\* BacktestEngine._execute_trade_signal
_execute_trade_signal(self, signal, current_price, current_date) ==
    IF signal.quantity <= 0 THEN Returned(self, "None", "")
    ELSE LET order_type == IF signal.action = "BUY" THEN "BUY" ELSE "SELL"
             success == execute_trade(self, signal.symbol, order_type,
                                      signal.quantity, current_price,
                                      combine(current_date), COMMISSION)
         IN  Returned(success.self, "None", success.line)

\* for symbol, df in self.data.items() of _process_daily_signals
RECURSIVE ProcessSymbols(_, _, _, _)
ProcessSymbols(self, data, current_date, order) ==
    IF order = << >> THEN Returned(self, "None", "")
    ELSE LET symbol == Head(order)
             rest   == Tail(order)
         IN  IF current_date.day \notin DOMAIN data[symbol]
             THEN ProcessSymbols(self, data, current_date, rest)
             ELSE LET signal_data == data[symbol][current_date.day]
                      signal == _generate_trading_signal(self, signal_data, symbol)
                      traded == _execute_trade_signal(self, signal.value,
                                                      signal_data.CLOSE, current_date)
                  IN  IF signal.raised THEN Raised(self)
                      ELSE IF signal.value.action # "HOLD"
                      THEN ProcessSymbols(traded.self, data, current_date, rest)
                      ELSE ProcessSymbols(self, data, current_date, rest)

\* BacktestEngine._process_daily_signals.  It hands current_date, a
\* datetime.date, to record_daily_value.
_process_daily_signals(self, data, current_date) ==
    LET current_prices == DayPrices(data, current_date)
        processed == ProcessSymbols(self, data, current_date, items(DOMAIN data))
    IN  IF ~Truthy(current_prices) THEN Returned(self, "None", "")
        ELSE IF processed.raised THEN processed
        ELSE record_daily_value(processed.self, current_prices, current_date)

(***************************************************************************)
(* run_backtest of scripts/backtest_stocks.py constructs a StockBacktester *)
(* and then a PositionManager with the keyword max_positions, which        *)
(* PositionManager.__init__(self, initial_capital) does not take: the      *)
(* TypeError leaves run_backtest before its date loop.                     *)
(***************************************************************************)
\* PositionManager.__init__ called with keyword arguments
PositionManager(kwargs) ==
    IF DOMAIN kwargs \subseteq {"initial_capital"}
    THEN Returned([initial_capital    |-> get(kwargs, "initial_capital", INITIAL_CAPITAL),
                   current_capital    |-> get(kwargs, "initial_capital", INITIAL_CAPITAL),
                   positions          |-> << >>,
                   max_position_size  |-> Frac(2, 10),
                   max_portfolio_risk |-> Frac(6, 100),
                   max_daily_loss     |-> Frac(2, 100),
                   max_weekly_loss    |-> Frac(5, 100),
                   max_positions      |-> 5,
                   win_rate           |-> Frac(35, 100),
                   avg_win_loss_ratio |-> Num(2),
                   daily_pnl          |-> 0,
                   weekly_pnl         |-> 0,
                   last_reset_date    |-> 0],   \* the day the object is made
                  "None", "")
    ELSE Raised("None")

\* the simulation loops before they run: the engine's data, the index of the
\* last date it processed, and where each run_backtest stands
Simulation(data) ==
    [data |-> data, date |-> 0, engine |-> "running", script |-> "ready"]

(***************************************************************************)
(* The strategies.  A DataFrame handed to a strategy is its number of rows *)
(* and its last row, the only parts get_signal reads; a row is a function  *)
(* on its columns.  An assignment to a whole column is written for one     *)
(* row, since no row depends on another there.                             *)
(***************************************************************************)
DataFrame(len, latest) == [len |-> len, latest |-> latest]

\* ImprovedBuyLowSellHighStrategy._generate_combined_signals: the weights
buy_weights ==
    [BUY_RSI |-> Frac(3, 2), BUY_BB |-> Frac(3, 2), BUY_LOW |-> Num(1),
     BUY_VOLUME |-> Frac(6, 5), BUY_MA_SUPPORT |-> Num(1),
     BUY_MACD |-> Frac(13, 10), BUY_DIVERGENCE |-> Num(2),
     BUY_MARKET |-> Num(1), BUY_TREND_FILTER |-> Frac(3, 2)]
sell_weights ==
    [SELL_RSI |-> Frac(3, 2), SELL_BB |-> Frac(3, 2), SELL_HIGH |-> Num(1),
     SELL_MA_RESISTANCE |-> Num(1), SELL_MACD |-> Frac(13, 10),
     SELL_PROFIT |-> Num(2), SELL_STOPLOSS |-> Num(3),
     SELL_DIVERGENCE |-> Num(2)]

\* sum(df[signal] * weight for signal, weight in weights.items())
RECURSIVE WeightedSum(_, _, _)
WeightedSum(df, weights, columns) ==
    IF columns = {} THEN Num(0)
    ELSE LET signal == CHOOSE c \in columns : TRUE
         IN  FracAdd(FracMul(Num(df[signal]), weights[signal]),
                     WeightedSum(df, weights, columns \ {signal}))

\* ImprovedBuyLowSellHighStrategy._generate_combined_signals, one row: SIGNAL
\* is set to 0, then to 1 where BUY_SCORE >= 3.0, then to -1 where
\* SELL_SCORE >= 2.5
_generate_combined_signals(df) ==
    LET BUY_SCORE  == WeightedSum(df, buy_weights, DOMAIN buy_weights)
        SELL_SCORE == WeightedSum(df, sell_weights, DOMAIN sell_weights)
        hold       == 0
        after_buy  == IF FracLe(Num(3), BUY_SCORE) THEN 1 ELSE hold
        after_sell == IF FracLe(Frac(5, 2), SELL_SCORE) THEN 0 - 1 ELSE after_buy
        SIGNAL_STRENGTH == FracMax(BUY_SCORE, SELL_SCORE)
    IN  With(df, [BUY_SCORE         |-> BUY_SCORE,
                  SELL_SCORE        |-> SELL_SCORE,
                  SIGNAL            |-> after_sell,
                  SIGNAL_STRENGTH   |-> SIGNAL_STRENGTH,
                  SIGNAL_CONFIDENCE |-> FracDiv(SIGNAL_STRENGTH, Num(10))])

\* BuyLowSellHighStrategy._generate_combined_signals of strategies/legacy:
\* the columns it adds up
buy_signals ==
    {"BUY_RSI", "BUY_BB", "BUY_LOW", "BUY_VOLUME", "BUY_MA_SUPPORT", "BUY_MACD"}
sell_signals ==
    {"SELL_RSI", "SELL_BB", "SELL_HIGH", "SELL_MA_RESISTANCE", "SELL_MACD",
     "SELL_PROFIT"}

\* df[columns].sum(axis=1)
RECURSIVE ColumnSum(_, _)
ColumnSum(df, columns) ==
    IF columns = {} THEN 0
    ELSE LET signal == CHOOSE c \in columns : TRUE
         IN  df[signal] + ColumnSum(df, columns \ {signal})

\* BuyLowSellHighStrategy._generate_combined_signals of strategies/legacy, one
\* row: the same three assignments with both thresholds at 2
legacy_generate_combined_signals(df) ==
    LET BUY_SCORE  == ColumnSum(df, buy_signals)
        SELL_SCORE == ColumnSum(df, sell_signals)
        hold       == 0
        after_buy  == IF BUY_SCORE >= 2 THEN 1 ELSE hold
        after_sell == IF SELL_SCORE >= 2 THEN 0 - 1 ELSE after_buy
    IN  With(df, [BUY_SCORE       |-> BUY_SCORE,
                  SELL_SCORE      |-> SELL_SCORE,
                  SIGNAL          |-> after_sell,
                  SIGNAL_STRENGTH |-> Abs(BUY_SCORE - SELL_SCORE)])

\* CryptoTradingStrategy.__init__: the attribute get_signal reads
CryptoTradingStrategy == [position_size_pct |-> Frac(15, 100)]

\* CryptoTradingStrategy.get_signal for data that prepare_data has scored:
\* if buy_score >= 2.5 ... elif sell_score >= 2.0 ... else HOLD, then the
\* size of a BUY.  The reasons and the indicator columns it copies into the
\* result are left out.
crypto_get_signal(self, data, symbol, capital) ==
    IF data.len < 50
    THEN [signal |-> "HOLD", confidence |-> Num(0), reason |-> "Insufficient data"]
    ELSE LET latest     == data.latest
             buy_score  == get(latest, "BUY_SCORE", Num(0))
             sell_score == get(latest, "SELL_SCORE", Num(0))
             signal     == IF FracLe(Frac(5, 2), buy_score) THEN "BUY"
                           ELSE IF FracLe(Num(2), sell_score) THEN "SELL"
                           ELSE "HOLD"
             confidence == IF signal = "BUY"
                           THEN FracMin(FracDiv(buy_score, Num(5)), Num(1))
                           ELSE IF signal = "SELL"
                           THEN FracMin(FracDiv(sell_score, Num(4)), Num(1))
                           ELSE Num(0)
             price      == get(latest, "CLOSE", 0)
             shares     == IF signal = "BUY" /\ price > 0
                           THEN FracInt(FracDiv(FracMul(Num(capital),
                                                        self.position_size_pct),
                                                Num(price)))
                           ELSE 0
         IN  [signal        |-> signal,
              confidence    |-> confidence,
              price         |-> price,
              buy_score     |-> buy_score,
              sell_score    |-> sell_score,
              position_size |-> shares]


\* float('nan') and pd.isna
NaN == [num |-> 0, den |-> 0]
isna(x) == x.den = 0

\* the argument None, unlike the dict {} which is the empty function
None == [None |-> TRUE]
IsNone(x) == DOMAIN x = {"None"}

\* ImprovedBuyLowSellHighStrategy.__init__: the attributes the signal path
\* reads
ImprovedBuyLowSellHighStrategy ==
    [is_trained        |-> FALSE,
     use_atr_sl_tp     |-> TRUE,          \* config.USE_ATR_BASED_SL_TP
     atr_multiplier_sl |-> Num(2),        \* config.ATR_MULTIPLIER_SL
     atr_multiplier_tp |-> Frac(7, 2),    \* config.ATR_MULTIPLIER_TP
     stop_loss_pct     |-> STOP_LOSS_PCT,
     take_profit_pct   |-> TAKE_PROFIT_PCT,
     position_size_pct |-> Frac(1, 10),
     max_positions     |-> 5,
     min_holding_days  |-> 3,
     positions         |-> << >>]

\* ImprovedBuyLowSellHighStrategy.calculate_position_size for a price that is
\* a number: max(1, min(shares, max_shares))
improved_calculate_position_size(self, capital, price, volatility) ==
    IF price <= 0 THEN 0
    ELSE LET vol == IF isna(volatility) THEN Frac(2, 100) ELSE volatility
             base_position_value == FracMul(Num(capital), self.position_size_pct)
             volatility_adj ==
                 FracDiv(Num(1), FracAdd(Num(1), FracMul(vol, Num(10))))
             position_value == FracMul(base_position_value, volatility_adj)
             shares     == FracInt(FracDiv(position_value, Num(price)))
             max_shares == FracInt(FracDiv(FracMul(Num(capital), Frac(2, 10)),
                                           Num(price)))
             least      == IF shares < max_shares THEN shares ELSE max_shares
         IN  IF least > 1 THEN least ELSE 1

\* ImprovedBuyLowSellHighStrategy.check_position_constraints; dates are days
check_position_constraints(self, symbol, current_date) ==
    LET held_too_short ==
            /\ symbol \in DOMAIN self.positions
            /\ current_date - self.positions[symbol].entry_date
                    < self.min_holding_days
    IN  IF held_too_short THEN FALSE
        ELSE IF Cardinality(DOMAIN self.positions) >= self.max_positions
        THEN FALSE
        ELSE TRUE

\* ImprovedBuyLowSellHighStrategy.update_positions
update_positions(self, symbol, action, price, date_) ==
    IF action = "BUY"
    THEN [self EXCEPT !.positions =
              Put(@, symbol, [entry_date |-> date_, entry_price |-> price])]
    ELSE IF action = "SELL" /\ symbol \in DOMAIN self.positions
    THEN [self EXCEPT !.positions = Del(@, symbol)]
    ELSE self

\* ImprovedBuyLowSellHighStrategy.predict on the last row: an untrained
\* strategy hands the data back; a trained one adds ML_SIGNAL from the class
\* its classifier gives the row, which is drawn with the row as PREDICTION
predict(self, latest) ==
    IF ~self.is_trained THEN latest
    ELSE With(latest, [ML_SIGNAL |-> IF latest.PREDICTION = 0 THEN "SELL"
                                     ELSE IF latest.PREDICTION = 1 THEN "HOLD"
                                     ELSE "BUY"])

\* what get_signal fetches by itself: the market analyzer's filter (or the
\* exception it raises), the sector information and the macro environment
Context(analyzer, sector_info, macro_env) ==
    [analyzer |-> analyzer, sector_info |-> sector_info, macro_env |-> macro_env]

\* ImprovedBuyLowSellHighStrategy.get_signal.  The news and sector overlays
\* change buy_score and sell_score, which go into the logged reasons only:
\* they and the indicator columns copied into the result are left out.
get_signal(self, data, symbol, capital, market_filter, context) ==
    LET filter == IF ~IsNone(market_filter) THEN market_filter
                  ELSE IF context.analyzer.raised
                  THEN [allow_trading |-> TRUE,
                        position_size_multiplier |-> Num(1)]
                  ELSE context.analyzer.value
        latest       == predict(self, data.latest)
        current_date == latest.Date
        ml_signal    == latest.ML_SIGNAL
        confidence   == latest.SIGNAL_CONFIDENCE
        signal       == IF /\ context.macro_env.environment = "VERY_UNFAVORABLE"
                           /\ ml_signal = "BUY"
                        THEN "HOLD" ELSE ml_signal
        price        == get(latest, "CLOSE", 0)
        column       == get(latest, "VOLATILITY_RATIO", Frac(2, 100))
        volatility   == IF isna(column) THEN Frac(2, 100) ELSE column
        shares       == improved_calculate_position_size(self, capital, price,
                                                         volatility)
        position_multiplier ==
            FracMul(FracMul(IF Truthy(filter)
                            THEN get(filter, "position_size_multiplier", Num(1))
                            ELSE Num(1),
                            get(context.sector_info, "weight_adjustment", Num(1))),
                    get(context.macro_env, "position_multiplier", Num(1)))
        position_size == FracInt(FracMul(Num(shares), position_multiplier))
        atr          == get(latest, "ATR", 0)
        by_atr       == self.use_atr_sl_tp /\ atr > 0
        stop_loss    == IF by_atr
                        THEN FracSub(Num(price),
                                     FracMul(Num(atr), self.atr_multiplier_sl))
                        ELSE FracMul(Num(price),
                                     FracSub(Num(1), self.stop_loss_pct))
        take_profit  == IF by_atr
                        THEN FracAdd(Num(price),
                                     FracMul(Num(atr), self.atr_multiplier_tp))
                        ELSE FracMul(Num(price),
                                     FracAdd(Num(1), self.take_profit_pct))
    IN  IF data.len = 0
        THEN Returned(self, [signal |-> "HOLD", confidence |-> Num(0),
                             reason |-> "No data"], "")
        ELSE IF Truthy(filter) /\ ~get(filter, "allow_trading", TRUE)
        THEN Returned(self, [symbol |-> symbol, signal |-> "HOLD",
                             confidence |-> Num(0),
                             reason |-> "market filter",
                             market_filter |-> filter], "hold_market_filter")
        ELSE IF ~check_position_constraints(self, symbol, current_date)
        THEN Returned(self, [signal |-> "HOLD", confidence |-> Num(0),
                             reason |-> "Position constraints not met"], "")
        \* latest['ML_SIGNAL'] of a row predict did not label: KeyError
        ELSE IF "ML_SIGNAL" \notin DOMAIN latest
        THEN Raised(self)
        ELSE IF price <= 0
        THEN Returned(self, [signal |-> "HOLD", confidence |-> Num(0),
                             reason |-> "Invalid price data"], "")
        ELSE IF signal = "BUY" /\ position_size <= 0
        THEN Returned(self, [symbol |-> symbol, signal |-> "HOLD",
                             confidence |-> confidence,
                             reason |-> "Market filter reduced position size to zero",
                             market_filter |-> filter], "hold_position_size")
        ELSE Returned(self, [symbol        |-> symbol,
                             signal        |-> signal,
                             confidence    |-> confidence,
                             timestamp     |-> current_date,
                             price         |-> price,
                             position_size |-> position_size,
                             stop_loss     |-> stop_loss,
                             take_profit   |-> take_profit,
                             market_filter |-> filter], "")

\* get_trading_signal of strategies/improved: get_signal of the module's one
\* strategy object, improved_strategy
get_trading_signal(improved_strategy, data, symbol, capital, market_filter, context) ==
    get_signal(improved_strategy, data, symbol, capital, market_filter, context)


(***************************************************************************)
(* PositionManager of utils/position_manager.py.  datetime.now() is the    *)
(* day handed to the method as now; profits and prices are whole numbers.  *)
(***************************************************************************)
\* PositionManager.calculate_kelly_fraction with its defaults
calculate_kelly_fraction(self) ==
    LET p == self.win_rate
        b == self.avg_win_loss_ratio
        q == FracSub(Num(1), p)
        kelly_fraction     == FracDiv(FracSub(FracMul(b, p), q), b)
        conservative_kelly == FracMul(kelly_fraction, Frac(25, 100))
    IN  FracMax(Frac(1, 100), FracMin(Frac(2, 10), conservative_kelly))

\* PositionManager.calculate_position_size with line 103 multiplying by
\* 1 + volatility * 10 where the code divides by it
position_manager_calculate_position_size_scaled_up(self, symbol, price, stop_loss_pct, volatility, signal_strength) ==
    LET capital == Num(self.current_capital)
        base_position_value == FracMul(capital, calculate_kelly_fraction(self))
        max_risk_per_trade  == FracMul(capital, Frac(1, 100))
        position_value_risk_based == FracDiv(max_risk_per_trade, stop_loss_pct)
        volatility_multiplier == FracAdd(Num(1), FracMul(volatility, Num(10)))
        signal_multiplier ==
            FracAdd(Frac(1, 2), FracMul(signal_strength, Frac(1, 2)))
        uncapped == FracMul(FracMul(FracMin(base_position_value,
                                            position_value_risk_based),
                                    volatility_multiplier),
                            signal_multiplier)
        max_position   == FracMul(capital, self.max_position_size)
        position_value == FracMin(uncapped, max_position)
        truncated      == FracInt(FracDiv(position_value, Num(price)))
        shares         == IF truncated > 1 THEN truncated ELSE 1
    IN  IF stop_loss_pct.num = 0 \/ price = 0 THEN Raised(self)
        ELSE Returned(self, <<shares, shares * price>>, "position_size")

\* PositionManager.calculate_position_size: (shares, actual_position_value);
\* a stop_loss_pct or price of 0 raises ZeroDivisionError
position_manager_calculate_position_size(self, symbol, price, stop_loss_pct, volatility, signal_strength) ==
    LET capital == Num(self.current_capital)
        base_position_value == FracMul(capital, calculate_kelly_fraction(self))
        max_risk_per_trade  == FracMul(capital, Frac(1, 100))
        position_value_risk_based == FracDiv(max_risk_per_trade, stop_loss_pct)
        volatility_multiplier ==
            FracDiv(Num(1), FracAdd(Num(1), FracMul(volatility, Num(10))))
        signal_multiplier ==
            FracAdd(Frac(1, 2), FracMul(signal_strength, Frac(1, 2)))
        uncapped == FracMul(FracMul(FracMin(base_position_value,
                                            position_value_risk_based),
                                    volatility_multiplier),
                            signal_multiplier)
        max_position   == FracMul(capital, self.max_position_size)
        position_value == FracMin(uncapped, max_position)
        truncated      == FracInt(FracDiv(position_value, Num(price)))
        shares         == IF truncated > 1 THEN truncated ELSE 1
    IN  IF stop_loss_pct.num = 0 \/ price = 0 THEN Raised(self)
        ELSE Returned(self, <<shares, shares * price>>, "position_size")

\* PositionManager.calculate_portfolio_risk, which divides by current_capital
calculate_portfolio_risk(self) ==
    IF ~Truthy(self.positions) THEN Returned(self, Num(0), "")
    ELSE IF self.current_capital = 0 THEN Raised(self)
    ELSE LET risks == [symbol \in DOMAIN self.positions |->
                          FracMul(Num(self.positions[symbol].value),
                                  self.positions[symbol].stop_loss_pct)]
             RECURSIVE Total(_)
             Total(S) == IF S = {} THEN Num(0)
                         ELSE LET symbol == CHOOSE x \in S : TRUE
                              IN  FracAdd(risks[symbol], Total(S \ {symbol}))
         IN  Returned(self, FracDiv(Total(DOMAIN risks),
                                    Num(self.current_capital)), "")

\* PositionManager.check_risk_limits: the daily and weekly resets, then the
\* four checks
check_risk_limits(self, now) ==
    LET daily  == IF now > self.last_reset_date
                  THEN [self EXCEPT !.daily_pnl = 0] ELSE self
        weekly == IF now - self.last_reset_date >= 7
                  THEN [daily EXCEPT !.weekly_pnl = 0, !.last_reset_date = now]
                  ELSE daily
        portfolio_risk == calculate_portfolio_risk(weekly)
    IN  IF portfolio_risk.raised THEN Raised(weekly)
        ELSE Returned(weekly,
                 [daily_loss_ok |->
                      FracLt(FracMul(FracSub(Num(0), weekly.max_daily_loss),
                                     Num(weekly.initial_capital)),
                             Num(weekly.daily_pnl)),
                  weekly_loss_ok |->
                      FracLt(FracMul(FracSub(Num(0), weekly.max_weekly_loss),
                                     Num(weekly.initial_capital)),
                             Num(weekly.weekly_pnl)),
                  position_count_ok |->
                      Cardinality(DOMAIN weekly.positions) < weekly.max_positions,
                  portfolio_risk_ok |->
                      FracLt(portfolio_risk.value, weekly.max_portfolio_risk)],
                 "")

\* PositionManager.can_open_position: (can_open, reason)
can_open_position(self, symbol, now) ==
    LET risk_checks == check_risk_limits(self, now)
        checks      == risk_checks.value
    IN  IF symbol \in DOMAIN self.positions
        THEN Returned(self, <<FALSE, "already held">>, "")
        ELSE IF risk_checks.raised THEN Raised(risk_checks.self)
        ELSE IF ~checks.daily_loss_ok
        THEN Returned(risk_checks.self, <<FALSE, "daily loss limit">>, "")
        ELSE IF ~checks.weekly_loss_ok
        THEN Returned(risk_checks.self, <<FALSE, "weekly loss limit">>, "")
        ELSE IF ~checks.position_count_ok
        THEN Returned(risk_checks.self, <<FALSE, "position count limit">>, "")
        ELSE IF ~checks.portfolio_risk_ok
        THEN Returned(risk_checks.self, <<FALSE, "portfolio risk limit">>, "")
        ELSE Returned(risk_checks.self, <<TRUE, "OK">>, "")

\* PositionManager.open_position; a price of 0 raises ZeroDivisionError
open_position(self, symbol, shares, price, stop_loss, take_profit, signal_strength, now) ==
    LET can_open == can_open_position(self, symbol, now)
    IN  IF can_open.raised THEN Raised(can_open.self)
        ELSE IF ~can_open.value[1]
        THEN Returned(can_open.self, FALSE, "cannot_open_position")
        ELSE IF price = 0 THEN Raised(can_open.self)
        ELSE Returned(
                 [can_open.self EXCEPT !.positions =
                     Put(@, symbol,
                         [shares          |-> shares,
                          entry_price     |-> price,
                          entry_date      |-> now,
                          stop_loss       |-> stop_loss,
                          take_profit     |-> take_profit,
                          stop_loss_pct   |->
                              FracDiv(FracSub(Num(price), stop_loss), Num(price)),
                          take_profit_pct |->
                              FracDiv(FracSub(take_profit, Num(price)), Num(price)),
                          value           |-> shares * price,
                          signal_strength |-> signal_strength,
                          unrealized_pnl  |-> 0])],
                 TRUE, "position_opened")

\* PositionManager.close_position; the record appended to closed_positions,
\* which nothing reads, is left out
close_position(self, symbol, price, reason, now) ==
    IF symbol \notin DOMAIN self.positions
    THEN Returned(self, "None", "no_position")
    ELSE LET position == self.positions[symbol]
             profit   == (price - position.entry_price) * position.shares
         IN  IF position.entry_price = 0 THEN Raised(self)
             ELSE Returned([self EXCEPT !.current_capital = @ + profit,
                                        !.daily_pnl = @ + profit,
                                        !.weekly_pnl = @ + profit,
                                        !.positions = Del(@, symbol)],
                           "closed_position", "position_closed")


\* RiskManager.calculate_position_size; risk_percentage None stands for
\* self.max_position_size, and a price of 0 raises ZeroDivisionError
risk_calculate_position_size(self, symbol, price, risk_percentage) ==
    LET percentage == IF IsNone(risk_percentage) THEN self.max_position_size
                      ELSE risk_percentage
        available_capital == FracMul(self.current_capital, Frac(95, 100))
        position_value == FracMul(available_capital, percentage)
        quantity     == FracInt(FracDiv(position_value, Num(price)))
        min_quantity == 1
        max_quantity == FracInt(FracDiv(FracMul(available_capital, Frac(1, 2)),
                                        Num(price)))
        least        == IF quantity < max_quantity THEN quantity ELSE max_quantity
    IN  IF price = 0 THEN Raised(self)
        ELSE Returned(self, IF least > min_quantity THEN least ELSE min_quantity,
                      "position_size")

(***************************************************************************)
(* PaperTrader of live_trading/local_simulator.py.  The trader is a record *)
(* that carries, next to its own attributes, the objects it works on: its  *)
(* PortfolioManager and the module-level position_manager and              *)
(* improved_strategy.  now is the day datetime.now() falls on.             *)
(***************************************************************************)
\* PaperTrader.__init__, then _load_initial_data with the frames collected
\* for the symbols that have data
PaperTrader(symbols, loaded, is_trained) ==
    [symbols           |-> symbols,
     portfolio_manager |-> PortfolioManager(INITIAL_CAPITAL),
     position_manager  |-> PositionManager(<< >>).self,
     improved_strategy |->
         [ImprovedBuyLowSellHighStrategy EXCEPT !.is_trained = is_trained],
     current_data      |-> loaded,
     current_prices    |-> [symbol \in DOMAIN loaded |-> loaded[symbol].latest.CLOSE],
     daily_trade_count |-> 0,
     last_trade_date   |-> 0 - 1,      \* None: no day
     now               |-> 0]

\* PaperTrader._check_daily_limits: (self, may trade)
_check_daily_limits(self) ==
    LET today == self.now
        counted == IF self.last_trade_date # today
                 THEN [self EXCEPT !.daily_trade_count = 0,
                                   !.last_trade_date = today]
                 ELSE self
    IN  Returned(counted, counted.daily_trade_count < 20, "")

\* PaperTrader._check_stop_loss_take_profit; an exception inside is caught
\* and logged
_check_stop_loss_take_profit(self, symbol) ==
    LET position      == get_position(self.portfolio_manager, symbol)
        current_price == get(self.current_prices, symbol, 0)
        pos_info      == self.position_manager.positions[symbol]
        entry_price   == pos_info.entry_price
        price_change  == Frac(current_price - entry_price, entry_price)
        stopped       == FracLe(price_change, FracSub(Num(0), STOP_LOSS_PCT))
        success == execute_trade(self.portfolio_manager, symbol, "SELL",
                                 position.quantity, current_price,
                                 [day |-> self.now, time |-> 0], COMMISSION)
        closed  == close_position(self.position_manager, symbol, current_price,
                                  IF stopped THEN "Stop Loss" ELSE "Take Profit",
                                  self.now)
    IN  IF symbol \notin DOMAIN self.portfolio_manager.positions
        THEN Returned(self, "None", "")
        ELSE IF current_price <= 0 THEN Returned(self, "None", "")
        ELSE IF symbol \notin DOMAIN self.position_manager.positions
        THEN Returned(self, "None", "")
        ELSE IF entry_price = 0 THEN Returned(self, "None", "check_error")
        ELSE IF ~(stopped \/ FracLe(TAKE_PROFIT_PCT, price_change))
        THEN Returned(self, "None", "")
        ELSE IF ~success.value
        THEN Returned([self EXCEPT !.portfolio_manager = success.self],
                      "None", "")
        ELSE Returned([self EXCEPT !.portfolio_manager = success.self,
                                   !.daily_trade_count = @ + 1,
                                   !.position_manager = closed.self],
                      "None", "auto_liquidated")

\* PaperTrader._update_symbol_data: latest_data is what the data collector
\* hands back, a frame whose rows are newer than the ones held or an empty
\* one; the frame is kept only for a symbol that already has data
_update_symbol_data(self, symbol, latest_data) ==
    IF latest_data.len = 0 \/ symbol \notin DOMAIN self.current_data
    THEN self
    ELSE [self EXCEPT
            !.current_data = Put(@, symbol,
                DataFrame(self.current_data[symbol].len + latest_data.len,
                          latest_data.latest)),
            !.current_prices = Put(@, symbol, latest_data.latest.CLOSE)]

\* PaperTrader._execute_buy_order from "if success" on; success is what
\* execute_trade handed back
_execute_buy_order_traded(self, symbol, price, signal_info, quantity, success) ==
    LET stop_loss   == get(signal_info, "stop_loss",
                           FracMul(Num(price), FracSub(Num(1), STOP_LOSS_PCT)))
        take_profit == get(signal_info, "take_profit",
                           FracMul(Num(price), FracAdd(Num(1), TAKE_PROFIT_PCT)))
    IN  IF ~success.value
        THEN Returned([self EXCEPT !.portfolio_manager = success.self],
                      "None", "")
        ELSE Returned([self EXCEPT
                         !.portfolio_manager = success.self,
                         !.daily_trade_count = @ + 1,
                         !.position_manager =
                             open_position(self.position_manager, symbol,
                                           quantity, price, stop_loss,
                                           take_profit,
                                           get(signal_info, "confidence", Num(1)),
                                           self.now).self],
                      "None", "bought")

\* PaperTrader._execute_buy_order from "if quantity <= 0" on
_execute_buy_order_sized(self, symbol, price, signal_info, quantity) ==
    IF quantity.raised THEN Raised(self)
    ELSE IF quantity.value <= 0 THEN Returned(self, "None", "")
    ELSE _execute_buy_order_traded(
             self, symbol, price, signal_info, quantity.value,
             execute_trade(self.portfolio_manager, symbol, "BUY",
                           quantity.value, price,
                           [day |-> self.now, time |-> 0], COMMISSION))

\* PaperTrader._execute_buy_order: the quantity is the signal's position_size
\* or, without one, portfolio_manager.calculate_position_size
_execute_buy_order(self, symbol, price, signal_info) ==
    _execute_buy_order_sized(
        self, symbol, price, signal_info,
        IF "position_size" \in DOMAIN signal_info
        THEN Returned(self.portfolio_manager, signal_info.position_size, "")
        ELSE calculate_position_size(self.portfolio_manager, symbol, price))

\* PaperTrader._execute_sell_order
_execute_sell_order(self, symbol, price, signal_info) ==
    LET position == get_position(self.portfolio_manager, symbol)
        success  == execute_trade(self.portfolio_manager, symbol, "SELL",
                                  position.quantity, price,
                                  [day |-> self.now, time |-> 0], COMMISSION)
        closed   == close_position(self.position_manager, symbol, price,
                                   "Signal", self.now)
    IN  IF symbol \notin DOMAIN self.portfolio_manager.positions
        THEN Returned(self, "None", "")
        ELSE IF ~success.value
        THEN Returned([self EXCEPT !.portfolio_manager = success.self],
                      "None", "")
        \* pnl_pct divides by position.avg_price after the trade is logged
        ELSE IF position.avg_price.num = 0
        THEN Raised([self EXCEPT !.portfolio_manager = success.self,
                                 !.daily_trade_count = @ + 1,
                                 !.position_manager = closed.self])
        ELSE Returned([self EXCEPT !.portfolio_manager = success.self,
                                   !.daily_trade_count = @ + 1,
                                   !.position_manager = closed.self],
                      "None", "sold")

\* PaperTrader._execute_signal
_execute_signal(self, signal_info) ==
    LET symbol        == signal_info.symbol
        current_price == get(self.current_prices, symbol, 0)
    IN  IF FracLt(signal_info.confidence, Frac(6, 10))
        THEN Returned(self, "None", "low_confidence")
        ELSE IF current_price <= 0
        THEN Returned(self, "None", "invalid_price")
        ELSE IF signal_info.signal = "BUY"
        THEN _execute_buy_order(self, symbol, current_price, signal_info)
        ELSE IF signal_info.signal = "SELL"
        THEN _execute_sell_order(self, symbol, current_price, signal_info)
        ELSE Returned(self, "None", "")


\* except Exception of PaperTrader._process_symbol_signal around
\* _execute_signal: the error is logged and nothing is raised again
_process_symbol_signal_executed(executed) ==
    IF executed.raised THEN Returned(executed.self, "None", "signal_error")
    ELSE executed

\* PaperTrader._process_symbol_signal from "if signal_info['signal'] != 'HOLD'"
\* on, with what get_trading_signal handed back or raised
_process_symbol_signal_signalled(marked, can_open, signal) ==
    IF signal.raised THEN Returned(marked, "None", "signal_error")
    ELSE IF signal.value.signal = "HOLD" THEN Returned(marked, "None", "")
    ELSE IF signal.value.signal = "BUY" /\ ~can_open.value[1]
    THEN Returned(marked, "None", "position_constraint")
    ELSE _process_symbol_signal_executed(_execute_signal(marked, signal.value))

\* PaperTrader._process_symbol_signal from get_trading_signal on; valued is
\* what get_portfolio_value handed back
_process_symbol_signal_valued(checked, symbol, can_open, valued, market_filter, context) ==
    _process_symbol_signal_signalled(
        [checked EXCEPT !.portfolio_manager = valued.self], can_open,
        get_trading_signal(checked.improved_strategy,
                           checked.current_data[symbol], symbol, valued.value,
                           market_filter, context))

\* PaperTrader._process_symbol_signal from get_portfolio_value on; can_open
\* is what can_open_position handed back or raised
_process_symbol_signal_checked(updated, symbol, can_open, market_filter, context) ==
    IF can_open.raised
    THEN Returned([updated EXCEPT !.position_manager = can_open.self],
                  "None", "signal_error")
    ELSE _process_symbol_signal_valued(
             [updated EXCEPT !.position_manager = can_open.self], symbol,
             can_open,
             get_portfolio_value(updated.portfolio_manager,
                                 updated.current_prices),
             market_filter, context)

\* PaperTrader._process_symbol_signal from the check of the symbol's data on
_process_symbol_signal_updated(updated, symbol, market_filter, context) ==
    IF \/ symbol \notin DOMAIN updated.current_data
       \/ updated.current_data[symbol].len = 0
    THEN Returned(updated, "None", "")
    ELSE _process_symbol_signal_checked(
             updated, symbol,
             can_open_position(updated.position_manager, symbol, updated.now),
             market_filter, context)

\* PaperTrader._process_symbol_signal: analyzer is what
\* market_analyzer.get_market_filter_signal() hands back or raises,
\* latest_data what the data collector has; any exception ends the method
\* with what it had changed so far
_process_symbol_signal(self, symbol, analyzer, latest_data, context) ==
    IF analyzer.raised THEN Returned(self, "None", "signal_error")
    ELSE IF ~analyzer.value.allow_trading
    THEN Returned(self, "None", "market_filter_blocked")
    ELSE _process_symbol_signal_updated(
             _update_symbol_data(self, symbol, latest_data), symbol,
             analyzer.value, context)

\* for symbol in self.symbols: the stop-loss check, then the signal
RECURSIVE ForSymbols(_, _, _, _, _)
ForSymbols(self, i, analyzer, latest, context) ==
    IF i > Len(self.symbols) THEN self
    ELSE LET symbol    == self.symbols[i]
             liquidated == _check_stop_loss_take_profit(self, symbol)
             processed == _process_symbol_signal(liquidated.self, symbol,
                                                 analyzer, latest[symbol],
                                                 context)
         IN  ForSymbols(processed.self, i + 1, analyzer, latest, context)

\* one turn of "while self.is_running" of PaperTrader._trading_loop with the
\* market open
_trading_loop(self, analyzer, latest, context) ==
    LET limits == _check_daily_limits(self)
    IN  IF ~limits.value THEN Returned(limits.self, "None", "daily_limit")
        ELSE Returned(ForSymbols(limits.self, 1, analyzer, latest, context),
                      "None", "")

(***************************************************************************)
(* The polling trader of live_trading/paper_trader.py.  Its orders go to   *)
(* the broker; its own PortfolioManager is written by _sync_portfolio      *)
(* only.  start_trading runs _monitoring_loop on the calling thread and    *)
(* _trading_loop on a thread of its own, and the interpreter may switch    *)
(* between the two threads between any two statements.                     *)
(***************************************************************************)
MaxOrders   == 1   \* a cycle starts with fewer orders than this at the broker
PollingDays == 1   \* the polling trader's clock reaches the days 0..PollingDays

PollingSymbols == <<"AAPL", "MSFT">>
\* the closes data_collector.get_latest_data may add for a symbol
PollingPrices  == {95, 100}
\* account.cash of the broker's account when the trader is made
AccountCash    == {INITIAL_CAPITAL, 9700}

\* the broker's account: cash and the positions api.list_positions() lists
Account(account_cash) == [cash |-> account_cash, positions |-> << >>]

\* api.submit_order of a market order, filled at the price; the broker may
\* refuse it, which raises
submit_order(api, symbol, qty, side, price, accepted) ==
    IF ~accepted THEN Raised(api)
    ELSE IF side = "buy"
    THEN IF qty * price > api.cash THEN Raised(api)
         ELSE Returned([api EXCEPT
                          !.cash = @ - qty * price,
                          !.positions = Put(@, symbol,
                              [qty |-> qty + (IF symbol \in DOMAIN api.positions
                                              THEN api.positions[symbol].qty ELSE 0),
                               avg_entry_price |-> price,
                               current_price   |-> price])],
                       "order", "")
    ELSE IF symbol \notin DOMAIN api.positions THEN Raised(api)
    ELSE IF api.positions[symbol].qty < qty THEN Raised(api)
    ELSE Returned([api EXCEPT
                     !.cash = @ + qty * price,
                     !.positions = IF api.positions[symbol].qty = qty
                                   THEN Del(@, symbol)
                                   ELSE [@ EXCEPT ![symbol].qty = @ - qty]],
                  "order", "")

\* PaperTrader.__init__ of paper_trader.py with _check_account_status, which
\* sets emergency_stop for a blocked account
AlpacaPaperTrader(symbols, blocked) ==
    [symbols           |-> symbols,
     is_running        |-> FALSE,
     portfolio_manager |-> PortfolioManager(INITIAL_CAPITAL),
     current_prices    |-> << >>,
     daily_trade_count |-> 0,
     last_trade_date   |-> 0 - 1,      \* None: no day
     daily_loss_limit  |-> FracMul(Num(INITIAL_CAPITAL), MAX_DAILY_LOSS),
     emergency_stop    |-> blocked]

\* The trader with what it works on: w.self is the PaperTrader, w.api the
\* broker's account, w.position_manager and w.risk_manager the objects of
\* utils/position_manager.py and live_trading/risk_manager.py, w.orders the
\* number of orders submitted and w.today the day date.today() gives.
Working(w, self) == [w EXCEPT !.self = self]

\* emergency_stop_trading that ends the loop and leaves emergency_stop as it was
emergency_stop_trading_flag_left(self) ==
    [self EXCEPT !.is_running = FALSE]

\* PaperTrader.emergency_stop_trading
emergency_stop_trading(self) ==
    [self EXCEPT !.emergency_stop = TRUE, !.is_running = FALSE]

\* PaperTrader._check_daily_limits of paper_trader.py
alpaca_check_daily_limits(self, today_) ==
    LET counted == IF self.last_trade_date # today_
                   THEN [self EXCEPT !.daily_trade_count = 0,
                                     !.last_trade_date = today_]
                   ELSE self
    IN  Returned(counted, counted.daily_trade_count < 20, "")

\* PaperTrader._check_daily_loss_limit
_check_daily_loss_limit(self) ==
    LET valued     == get_portfolio_value(self.portfolio_manager, self.current_prices)
        daily_loss == INITIAL_CAPITAL - valued.value
    IN  Returned([self EXCEPT !.portfolio_manager = valued.self],
                 ~FracLt(self.daily_loss_limit, Num(daily_loss)),
                 IF FracLt(self.daily_loss_limit, Num(daily_loss))
                 THEN "daily_loss_limit_exceeded" ELSE "")

\* the sell order of _check_stop_loss_take_profit and _execute_sell_order
\* with what follows it; order is what submit_order handed back
alpaca_sold(w, symbol, price, reason, order, line) ==
    IF order.raised THEN [w EXCEPT !.api = order.self, !.line = "order_error"]
    ELSE [w EXCEPT !.api = order.self,
                   !.orders = @ + 1,
                   !.self.daily_trade_count = @ + 1,
                   !.position_manager =
                       close_position(w.position_manager, symbol, price, reason,
                                      w.today).self,
                   !.line = line]

\* PaperTrader._check_stop_loss_take_profit of paper_trader.py
alpaca_check_stop_loss_take_profit(w, symbol, accepted) ==
    LET position      == get_position(w.self.portfolio_manager, symbol)
        current_price == get(w.self.current_prices, symbol, 0)
        entry_price   == w.position_manager.positions[symbol].entry_price
        price_change  == Frac(current_price - entry_price, entry_price)
        stopped       == FracLe(price_change, FracSub(Num(0), STOP_LOSS_PCT))
    IN  IF symbol \notin DOMAIN w.self.portfolio_manager.positions THEN w
        ELSE IF current_price <= 0 THEN w
        ELSE IF symbol \notin DOMAIN w.position_manager.positions THEN w
        ELSE IF entry_price = 0 THEN w
        ELSE IF ~(stopped \/ FracLe(TAKE_PROFIT_PCT, price_change)) THEN w
        ELSE alpaca_sold(w, symbol, current_price,
                         IF stopped THEN "Stop Loss" ELSE "Take Profit",
                         submit_order(w.api, symbol, position.quantity, "sell",
                                      current_price, accepted),
                         "auto_liquidated")

\* PaperTrader._execute_buy_order of paper_trader.py from submit_order on
alpaca_bought(w, symbol, price, signal_info, quantity, order) ==
    IF order.raised THEN [w EXCEPT !.api = order.self, !.line = "order_error"]
    ELSE [w EXCEPT !.api = order.self,
                   !.orders = @ + 1,
                   !.self.daily_trade_count = @ + 1,
                   !.position_manager =
                       open_position(
                           w.position_manager, symbol, quantity, price,
                           get(signal_info, "stop_loss",
                               FracMul(Num(price), FracSub(Num(1), STOP_LOSS_PCT))),
                           get(signal_info, "take_profit",
                               FracMul(Num(price), FracAdd(Num(1), TAKE_PROFIT_PCT))),
                           get(signal_info, "confidence", Num(1)), w.today).self,
                   !.line = "bought"]

\* PaperTrader._execute_buy_order of paper_trader.py for a signal that
\* carries its position_size
alpaca_execute_buy_order(w, symbol, price, signal_info, accepted) ==
    IF signal_info.position_size <= 0 THEN w
    ELSE alpaca_bought(w, symbol, price, signal_info, signal_info.position_size,
                       submit_order(w.api, symbol, signal_info.position_size,
                                    "buy", price, accepted))

\* PaperTrader._execute_sell_order of paper_trader.py
alpaca_execute_sell_order(w, symbol, price, signal_info, accepted) ==
    IF symbol \notin DOMAIN w.self.portfolio_manager.positions THEN w
    ELSE alpaca_sold(w, symbol, price, "Signal",
                     submit_order(w.api, symbol,
                                  w.self.portfolio_manager.positions[symbol].quantity,
                                  "sell", price, accepted),
                     "sold")

\* PaperTrader._execute_signal of paper_trader.py
alpaca_execute_signal(w, signal_info, current_price, accepted) ==
    IF FracLt(signal_info.confidence, Frac(35, 100)) THEN w
    ELSE IF current_price <= 0 THEN w
    ELSE IF signal_info.signal = "BUY"
    THEN alpaca_execute_buy_order(w, signal_info.symbol, current_price,
                                  signal_info, accepted)
    ELSE IF signal_info.signal = "SELL"
    THEN alpaca_execute_sell_order(w, signal_info.symbol, current_price,
                                   signal_info, accepted)
    ELSE w

\* PaperTrader._process_symbol_signal of paper_trader.py from
\* can_open_position on; can_trade is what it handed back
alpaca_process_symbol_signal_checked(w, symbol, can_trade, signal_info, accepted) ==
    IF can_trade.raised THEN [w EXCEPT !.position_manager = can_trade.self]
    ELSE IF signal_info.signal = "HOLD" \/ (signal_info.signal = "BUY" /\ ~can_trade.value[1])
    THEN [w EXCEPT !.position_manager = can_trade.self,
                   !.self.portfolio_manager =
                       get_portfolio_value(@, w.self.current_prices).self]
    ELSE alpaca_execute_signal(
             [w EXCEPT !.position_manager = can_trade.self,
                       !.self.portfolio_manager =
                           get_portfolio_value(@, w.self.current_prices).self],
             signal_info, get(w.self.current_prices, symbol, 0), accepted)

\* PaperTrader._update_symbol_data of paper_trader.py: latest is the close
\* of a new row, or 0 when the collector has none
alpaca_update_symbol_data(self, symbol, latest) ==
    IF latest = 0 \/ symbol \notin DOMAIN self.current_prices THEN self
    ELSE [self EXCEPT !.current_prices = Put(@, symbol, latest)]

\* PaperTrader._process_symbol_signal of paper_trader.py; signal_info is
\* what get_trading_signal hands back
alpaca_process_symbol_signal(w, symbol, market_filter, latest, signal_info, accepted) ==
    IF ~market_filter.allow_trading THEN w
    ELSE IF symbol \notin DOMAIN w.self.current_prices THEN w
    ELSE alpaca_process_symbol_signal_checked(
             Working(w, alpaca_update_symbol_data(w.self, symbol, latest)),
             symbol, can_open_position(w.position_manager, symbol, w.today),
             signal_info, accepted)

\* the objects the modules make when they are imported: position_manager of
\* utils/position_manager.py, risk_manager of live_trading/risk_manager.py
\* and improved_strategy of strategies/improved/buy_low_sell_high.py
Modules ==
    [position_manager  |-> PositionManager(<< >>).self,
     risk_manager      |-> RiskManager(INITIAL_CAPITAL),
     improved_strategy |-> ImprovedBuyLowSellHighStrategy]

\* a polling trader just made, with the broker's account and its threads
Polling(blocked, account_cash) ==
    [self           |-> AlpacaPaperTrader(PollingSymbols, blocked),
     api            |-> Account(account_cash),
     orders         |-> 0,
     trading_thread |-> [pc |-> "unstarted", index |-> 1,
                         market_filter |-> << >>],
     main_thread    |-> [pc |-> "idle", positions |-> << >>]]

(***************************************************************************)
(* The state machine: a caller drives one PortfolioManager through its     *)
(* public methods with arguments of its choice.                            *)
(***************************************************************************)
\* the state after the call op(args) that handed back r
Becomes(op, args, r) ==
    /\ initial_capital'   = r.self.initial_capital
    /\ cash'              = r.self.cash
    /\ positions'         = r.self.positions
    /\ trades'            = r.self.trades
    /\ daily_values'      = r.self.daily_values
    /\ portfolio_history' = r.self.portfolio_history
    /\ total_commission'  = r.self.total_commission
    /\ total_trades'      = r.self.total_trades
    /\ winning_trades'    = r.self.winning_trades
    /\ losing_trades'     = r.self.losing_trades
    /\ UNCHANGED <<backtester, risk, applied_filter, run, trader, live>>
    /\ call'              = [op |-> op, args |-> args]
    /\ ret'               = [raised |-> r.raised, value |-> r.value]
    /\ logged'            = r.line

Init ==
    /\ initial_capital   = Capital
    /\ cash              = Capital
    /\ positions         = << >>
    /\ trades            = << >>
    /\ daily_values      = << >>
    /\ portfolio_history = << >>
    /\ total_commission  = 0
    /\ total_trades      = 0
    /\ winning_trades    = 0
    /\ losing_trades     = 0
    /\ backtester        = StockBacktester(Capital)
    /\ risk              = RiskManager(INITIAL_CAPITAL)
    /\ applied_filter    = RiskManager(INITIAL_CAPITAL).market_filter_state
    /\ run               = Simulation(<< >>)
    /\ trader            = PaperTrader(<< >>, << >>, FALSE)
    /\ polling           = Polling(FALSE, INITIAL_CAPITAL)
    /\ modules           = Modules
    /\ wall_clock        = 0
    /\ traders           = << >>
    /\ call              = [op |-> "__init__", args |-> [initial_capital |-> Capital]]
    /\ ret               = [raised |-> FALSE, value |-> "None"]
    /\ logged            = ""

\* the arguments a caller can pass to execute_trade for the symbols of universe
Orders(universe) ==
    [symbol : universe, order_type : OrderType, quantity : Quantities,
     price : Prices, timestamp : Timestamps, commission : Commissions]

\* execute_trade on a ledger whose trade log is shorter than limit
ExecuteTrade(universe, limit) ==
    /\ Len(trades) < limit
    /\ \E o \in Orders(universe) :
          Becomes("execute_trade", o,
                  execute_trade(Self, o.symbol, o.order_type, o.quantity,
                                o.price, o.timestamp, o.commission))

GetPortfolioValue(universe) ==
    \E current_prices \in PriceMaps(universe) :
       Becomes("get_portfolio_value", [current_prices |-> current_prices],
               get_portfolio_value(Self, current_prices))

RecordDailyValue(universe) ==
    /\ Len(portfolio_history) < MaxSnapshots
    /\ \E current_prices \in PriceMaps(universe), timestamp \in Timestamps :
          Becomes("record_daily_value",
                  [current_prices |-> current_prices, timestamp |-> timestamp],
                  record_daily_value(Self, current_prices, timestamp))

Reset ==
    Becomes("reset", << >>, reset(Self))

\* Spec: one symbol, the longest trade log
Next ==
    \/ ExecuteTrade(OneSymbol, MaxTrades)
    \/ GetPortfolioValue(OneSymbol)
    \/ Reset

Spec == Init /\ [][Next]_vars

\* SpecPortfolio: two symbols, a shorter trade log
NextPortfolio ==
    \/ ExecuteTrade(Symbols, MaxPortfolioTrades)
    \/ GetPortfolioValue(Symbols)
    \/ Reset

SpecPortfolio == Init /\ [][NextPortfolio]_vars

\* SpecDaily: one symbol, record_daily_value among the calls
NextDaily ==
    \/ ExecuteTrade(OneSymbol, MaxDailyTrades)
    \/ GetPortfolioValue(OneSymbol)
    \/ RecordDailyValue(OneSymbol)
    \/ Reset

SpecDaily == Init /\ [][NextDaily]_vars

\* SpecBacktester: a caller drives the StockBacktester through buy and sell
BacktesterBecomes(op, args, r) ==
    /\ backtester' = r.self
    /\ call'       = [op |-> op, args |-> args]
    /\ ret'        = [raised |-> r.raised, value |-> r.value]
    /\ logged'     = r.line
    /\ UNCHANGED <<ledger, risk, applied_filter, run, trader, live>>

BacktesterOrders ==
    [symbol : Symbols, shares : Quantities, price : Prices, date : Timestamps]

Buy ==
    /\ Len(backtester.trades) < MaxBacktesterTrades
    /\ \E o \in BacktesterOrders :
          BacktesterBecomes("StockBacktester.buy", o,
                            buy(backtester, o.symbol, o.shares, o.price, o.date))

Sell ==
    /\ Len(backtester.trades) < MaxBacktesterTrades
    /\ \E o \in BacktesterOrders :
          BacktesterBecomes("StockBacktester.sell", o,
                            sell(backtester, o.symbol, o.shares, o.price, o.date))

NextBacktester == Buy \/ Sell

SpecBacktester == Init /\ [][NextBacktester]_vars

(***************************************************************************)
(* SpecRisk: a caller drives the RiskManager through its public methods.   *)
(* Losses are dollars below INITIAL_CAPITAL, chosen around the thresholds   *)
(* of the two loss checks and around the percentages the spec names.       *)
(***************************************************************************)
Losses ==
    {Num(0 - 500), Num(0), Frac(1, 100), Frac(9, 500), Num(1),
     Num(160), Num(200), Num(1000), Num(1500), Num(2000), Num(2500),
     Num(INITIAL_CAPITAL)}
PortfolioValues == {FracSub(Num(INITIAL_CAPITAL), loss) : loss \in Losses}

\* position_size_multiplier: negative, zero, below 1 and above 1 (the
\* default 1.0 is what a filter without the key gets)
Multipliers == {Num(0 - 1), Num(0), Frac(1, 2), Frac(6, 5)}

\* the market filters a caller can pass: None/{} and dicts with some of the keys
MarketFilters ==
    {<< >>, [reasons |-> << >>]}
    \cup {[allow_trading |-> a] : a \in BOOLEAN}
    \cup {[position_size_multiplier |-> m] : m \in Multipliers}
    \cup {[allow_trading |-> a, position_size_multiplier |-> m] :
            a \in BOOLEAN, m \in Multipliers}

\* the filters SpecRisk hands to adapt_to_market_conditions
AdaptFilters ==
    {<< >>, [allow_trading |-> FALSE], [allow_trading |-> TRUE],
     [position_size_multiplier |-> Frac(1, 2)],
     [position_size_multiplier |-> Frac(6, 5)]}

\* the macro environments a caller can pass: None/{} and dicts with or
\* without the environment key
MacroEnvs ==
    {<< >>, [signals |-> << >>]}
    \cup {[environment |-> e] :
            e \in {"VERY_UNFAVORABLE", "UNFAVORABLE", "NEUTRAL", "FAVORABLE",
                   "VERY_FAVORABLE"}}

\* the macro environments SpecRisk hands to adapt_to_market_conditions
RiskMacroEnvs ==
    {<< >>, [environment |-> "VERY_UNFAVORABLE"], [environment |-> "NEUTRAL"],
     [environment |-> "VERY_FAVORABLE"]}

NewCapitals == {Num(0), Num(INITIAL_CAPITAL)}

\* the positions and prices handed to check_portfolio_risk
RiskPositions ==
    {<< >>,
     [s \in OneSymbol |->
        [quantity |-> 30, avg_price |-> Num(100), current_price |-> Num(112)]]}
RiskPrices == {<< >>, [s \in OneSymbol |-> Num(88)]}

RiskBecomes(op, args, r, filter) ==
    /\ risk'           = r.self
    /\ applied_filter' = filter
    /\ call'           = [op |-> op, args |-> args]
    /\ ret'            = [raised |-> r.raised, value |-> r.value]
    /\ logged'         = r.line
    /\ UNCHANGED <<ledger, backtester, run, trader, live>>

CheckPortfolioRisk ==
    \E portfolio_value \in PortfolioValues, positions_ \in RiskPositions,
       current_prices \in RiskPrices :
       RiskBecomes("check_portfolio_risk",
                   [portfolio_value |-> portfolio_value, positions |-> positions_,
                    current_prices |-> current_prices],
                   check_portfolio_risk(risk, portfolio_value, positions_,
                                        current_prices),
                   applied_filter)

ApplyMarketFilter ==
    \E filter_signal \in MarketFilters :
       RiskBecomes("apply_market_filter", [filter_signal |-> filter_signal],
                   apply_market_filter(risk, filter_signal),
                   IF Truthy(filter_signal) THEN filter_signal ELSE applied_filter)

AdaptToMarketConditions(filters, envs) ==
    \E market_filter \in filters, macro_env \in envs :
       RiskBecomes("adapt_to_market_conditions",
                   [market_filter |-> market_filter, macro_env |-> macro_env],
                   adapt_to_market_conditions(risk, market_filter, macro_env),
                   IF Truthy(market_filter) THEN market_filter ELSE applied_filter)

UpdateCapital ==
    \E new_capital \in NewCapitals :
       RiskBecomes("update_capital", [new_capital |-> new_capital],
                   update_capital(risk, new_capital), applied_filter)

ResetEmergencyStop ==
    RiskBecomes("reset_emergency_stop", << >>, reset_emergency_stop(risk),
                applied_filter)

AllowsTrading ==
    RiskBecomes("allows_trading", << >>, allows_trading(risk), applied_filter)

\* the two loss checks called on their own
CheckTotalPortfolioRisk ==
    \E portfolio_value \in PortfolioValues :
       RiskBecomes("_check_total_portfolio_risk",
                   [portfolio_value |-> portfolio_value],
                   _check_total_portfolio_risk(risk, portfolio_value),
                   applied_filter)

CheckDailyLossRisk ==
    \E portfolio_value \in PortfolioValues :
       RiskBecomes("_check_daily_loss_risk",
                   [portfolio_value |-> portfolio_value],
                   _check_daily_loss_risk(risk, portfolio_value),
                   applied_filter)

NextRisk ==
    \/ CheckPortfolioRisk
    \/ ApplyMarketFilter
    \/ AdaptToMarketConditions(AdaptFilters, RiskMacroEnvs)
    \/ UpdateCapital
    \/ ResetEmergencyStop
    \/ AllowsTrading

SpecRisk == Init /\ [][NextRisk]_vars

\* SpecRiskChecks: the loss checks one at a time, between market filters and
\* resets of the emergency stop
NextRiskChecks ==
    \/ CheckTotalPortfolioRisk
    \/ CheckDailyLossRisk
    \/ ApplyMarketFilter
    \/ ResetEmergencyStop

SpecRiskChecks == Init /\ [][NextRiskChecks]_vars

\* the RiskManager under market filters and every macro environment
NextAdapt ==
    \/ AdaptToMarketConditions(AdaptFilters, MacroEnvs)
    \/ ApplyMarketFilter

SpecAdapt == Init /\ [][NextAdapt]_vars

(***************************************************************************)
(* The simulation loops.  BacktestEngine.run_backtest walks the common     *)
(* dates of its data, one _process_daily_signals per step, and an          *)
(* exception leaves the loop and run_backtest with it.  The data is what   *)
(* prepare_data collected: a DataFrame per symbol that has rows.           *)
(***************************************************************************)
NumDates == 2   \* the days the collected data can cover are 1..NumDates

Days   == 1..NumDates
Closes == {0, 97, 100}
\* a row: its CLOSE and the SIGNAL the strategy wrote (1 BUY, -1 SELL, 0 HOLD)
Rows(closes, signals) == [CLOSE : closes, SIGNAL : signals]
\* the non-empty DataFrames over the days
DataFrames(rows) == UNION {[D -> rows] : D \in SUBSET Days \ {{}}}
\* self.data after prepare_data: symbols without rows are left out
EngineData(universe, rows) ==
    UNION {[S -> DataFrames(rows)] : S \in SUBSET universe}

ManySymbols == {"AAPL", "MSFT", "GOOGL", "AMZN", "NVDA", "META"}

InitBacktest(dataset) ==
    /\ initial_capital   = INITIAL_CAPITAL
    /\ cash              = INITIAL_CAPITAL
    /\ positions         = << >>
    /\ trades            = << >>
    /\ daily_values      = << >>
    /\ portfolio_history = << >>
    /\ total_commission  = 0
    /\ total_trades      = 0
    /\ winning_trades    = 0
    /\ losing_trades     = 0
    /\ backtester        = StockBacktester(Capital)
    /\ risk              = RiskManager(INITIAL_CAPITAL)
    /\ applied_filter    = RiskManager(INITIAL_CAPITAL).market_filter_state
    /\ run               \in {Simulation(data) : data \in dataset}
    /\ trader            = PaperTrader(<< >>, << >>, FALSE)
    /\ polling           = Polling(FALSE, INITIAL_CAPITAL)
    /\ modules           = Modules
    /\ wall_clock        = 0
    /\ traders           = << >>
    /\ call              = [op |-> "__init__",
                            args |-> [initial_capital |-> INITIAL_CAPITAL]]
    /\ ret               = [raised |-> FALSE, value |-> "None"]
    /\ logged            = ""

\* the engine's PortfolioManager after a call that handed back r
LedgerBecomes(r) ==
    /\ initial_capital'   = r.self.initial_capital
    /\ cash'              = r.self.cash
    /\ positions'         = r.self.positions
    /\ trades'            = r.self.trades
    /\ daily_values'      = r.self.daily_values
    /\ portfolio_history' = r.self.portfolio_history
    /\ total_commission'  = r.self.total_commission
    /\ total_trades'      = r.self.total_trades
    /\ winning_trades'    = r.self.winning_trades
    /\ losing_trades'     = r.self.losing_trades

\* one turn of "for current_date in common_dates" of BacktestEngine.run_backtest
EngineProcessDate ==
    /\ run.engine = "running"
    /\ run.date < Len(_get_common_dates(run.data))
    /\ LET current_date == Date(_get_common_dates(run.data)[run.date + 1])
           r == _process_daily_signals(Self, run.data, current_date)
       IN  /\ LedgerBecomes(r)
           /\ run' = [run EXCEPT !.date = @ + 1,
                                 !.engine = IF r.raised THEN "raised" ELSE @]
           /\ call' = [op |-> "_process_daily_signals",
                       args |-> [current_date |-> current_date]]
           /\ ret' = [raised |-> r.raised, value |-> r.value]
           /\ logged' = r.line
    /\ UNCHANGED <<backtester, risk, applied_filter, trader, live>>

\* BacktestEngine.run_backtest after its loop: {} without data or dates,
\* else the results with the trade and snapshot logs
EngineFinish ==
    /\ run.engine = "running"
    /\ run.date = Len(_get_common_dates(run.data))
    /\ run' = [run EXCEPT !.engine = "done"]
    /\ call' = [op |-> "run_backtest", args |-> << >>]
    /\ ret' = [raised |-> FALSE,
               value |-> IF _get_common_dates(run.data) = << >>
                         THEN "{}" ELSE "results"]
    /\ logged' = IF _get_common_dates(run.data) = << >>
                 THEN "no_common_dates" ELSE "backtest_done"
    /\ UNCHANGED <<ledger, backtester, risk, applied_filter, trader, live>>

\* run_backtest of scripts/backtest_stocks.py up to the line that raises
ScriptRunBacktest ==
    /\ run.script = "ready"
    /\ LET position_manager ==
               PositionManager([initial_capital |-> INITIAL_CAPITAL,
                                max_positions |-> MAX_POSITIONS])
       IN  /\ backtester' = StockBacktester(INITIAL_CAPITAL)
           /\ run' = [run EXCEPT !.script = IF position_manager.raised
                                            THEN "raised" ELSE "looping"]
           /\ ret' = [raised |-> position_manager.raised, value |-> "None"]
    /\ call' = [op |-> "scripts.run_backtest", args |-> << >>]
    /\ logged' = ""
    /\ UNCHANGED <<ledger, risk, applied_filter, trader, live>>

NextBacktest ==
    \/ EngineProcessDate
    \/ EngineFinish
    \/ ScriptRunBacktest

\* two symbols, every row
SpecBacktest ==
    InitBacktest(EngineData(Symbols, Rows(Closes, {0 - 1, 0, 1})))
      /\ [][NextBacktest]_vars

\* six symbols, each with rows that say BUY at 100
SpecBacktestMany ==
    InitBacktest(EngineData(ManySymbols, Rows({100}, {1})))
      /\ [][NextBacktest]_vars

(***************************************************************************)
(* The strategies' rule-score decisions, called on scored rows.            *)
(***************************************************************************)
\* the indicator columns that may fire; the others are 0
FiringColumns ==
    {"BUY_RSI", "BUY_BB", "BUY_MACD", "SELL_RSI", "SELL_BB", "SELL_MACD"}
IndicatorColumns ==
    DOMAIN buy_weights \cup DOMAIN sell_weights \cup buy_signals \cup sell_signals
IndicatorRows ==
    {[c \in IndicatorColumns |-> IF c \in fired THEN 1 ELSE 0] :
        fired \in SUBSET FiringColumns}
Scores == {Num(0), Num(2), Frac(5, 2), Num(3)}
\* frames prepare_data has scored, one row short of the 50 get_signal asks
\* for or long enough
ScoredFrames ==
    {DataFrame(len, [BUY_SCORE |-> b, SELL_SCORE |-> s, CLOSE |-> c]) :
        len \in {49, 50}, b \in Scores, s \in Scores, c \in {0, 100}}

\* the state after a call of a function that changes no object
Called(op, args, r) ==
    /\ call' = [op |-> op, args |-> args]
    /\ ret' = [raised |-> r.raised, value |-> r.value]
    /\ logged' = r.line
    /\ UNCHANGED <<ledger, backtester, risk, applied_filter, run, trader, live>>

GenerateCombinedSignals ==
    /\ \E df \in IndicatorRows :
           Called("_generate_combined_signals", [df |-> df],
                  Returned("None", _generate_combined_signals(df), ""))

LegacyGenerateCombinedSignals ==
    /\ \E df \in IndicatorRows :
           Called("legacy._generate_combined_signals", [df |-> df],
                  Returned("None", legacy_generate_combined_signals(df), ""))

CryptoGetSignal ==
    /\ \E data \in ScoredFrames :
           Called("crypto.get_signal",
                  [data |-> data, symbol |-> "BTC", capital |-> INITIAL_CAPITAL],
                  Returned("None",
                           crypto_get_signal(CryptoTradingStrategy, data, "BTC",
                                             INITIAL_CAPITAL), ""))

NextSignals ==
    \/ GenerateCombinedSignals
    \/ LegacyGenerateCombinedSignals
    \/ CryptoGetSignal

SpecSignals == Init /\ [][NextSignals]_vars

(***************************************************************************)
(* The paper trader.  Between two turns of its trading loop the clock may  *)
(* move on by a day; the market analyzer, the data collector and the       *)
(* sector and macro trackers answer as they like.  Any caller may ask the  *)
(* strategy for a signal between the turns.                                *)
(***************************************************************************)
TradingDays   == 2   \* the clock reaches the days 0..TradingDays
MaxLoopTrades == 2   \* a turn starts with fewer trades than this in the ledger

TraderSymbols == <<"AAPL">>
\* a prepared row of a day: its close, the classifier's class for it and the
\* confidence column
TraderRow(day, close, prediction, confidence) ==
    [Date |-> day, CLOSE |-> close, PREDICTION |-> prediction,
     SIGNAL_CONFIDENCE |-> confidence]
TraderRows(day) ==
    {TraderRow(day, close, prediction, Frac(7, 10)) :
        close \in {96, 100}, prediction \in {0, 1, 2}}
    \cup {TraderRow(day, 100, 2, Frac(1, 2))}
\* what market_analyzer.get_market_filter_signal() builds: VIX above 35
\* blocks trading
AnalyzerFilters ==
    {[allow_trading |-> a, position_size_multiplier |-> Num(1)] : a \in BOOLEAN}
Analyzers ==
    {[raised |-> FALSE, value |-> f] : f \in AnalyzerFilters}
    \cup {[raised |-> TRUE, value |-> << >>]}
\* SectorRotationAnalyzer.should_favor_sector and
\* MacroIndicatorTracker.assess_market_environment
Contexts(analyzers) ==
    {Context(analyzer, [weight_adjustment |-> Num(1)], macro_env) :
        analyzer \in analyzers,
        macro_env \in {[environment |-> "NEUTRAL", position_multiplier |-> Num(1)],
                       [environment |-> "VERY_UNFAVORABLE",
                        position_multiplier |-> Frac(3, 10)]}}

\* the frames _load_initial_data may have collected on day 0
LoadedData ==
    {<< >>, [symbol \in {"AAPL"} |->
                DataFrame(60, TraderRow(0, 100, 1, Frac(7, 10)))]}

\* data_collector.get_latest_data(symbol, days=1): nothing, or today's row
\* when the frame held ends before today
LatestData(self, symbol) ==
    {DataFrame(0, << >>)}
    \cup IF symbol \in DOMAIN self.current_data
            /\ self.current_data[symbol].latest.Date < self.now
         THEN {DataFrame(1, row) : row \in TraderRows(self.now)}
         ELSE {}

InitTrader ==
    /\ initial_capital   = INITIAL_CAPITAL
    /\ cash              = INITIAL_CAPITAL
    /\ positions         = << >>
    /\ trades            = << >>
    /\ daily_values      = << >>
    /\ portfolio_history = << >>
    /\ total_commission  = 0
    /\ total_trades      = 0
    /\ winning_trades    = 0
    /\ losing_trades     = 0
    /\ backtester        = StockBacktester(Capital)
    /\ risk              = RiskManager(INITIAL_CAPITAL)
    /\ applied_filter    = RiskManager(INITIAL_CAPITAL).market_filter_state
    /\ run               = Simulation(<< >>)
    /\ trader            \in {PaperTrader(TraderSymbols, loaded, is_trained) :
                                 loaded \in LoadedData, is_trained \in BOOLEAN}
    /\ polling           = Polling(FALSE, INITIAL_CAPITAL)
    /\ modules           = Modules
    /\ wall_clock        = 0
    /\ traders           = << >>
    /\ call              = [op |-> "PaperTrader", args |-> [symbols |-> TraderSymbols]]
    /\ ret               = [raised |-> FALSE, value |-> "None"]
    /\ logged            = ""

\* the state after the call op(args) on the trader that handed back r
TraderBecomes(op, args, r) ==
    /\ trader' = r.self
    /\ call' = [op |-> op, args |-> args]
    /\ ret' = [raised |-> r.raised, value |-> r.value]
    /\ logged' = r.line
    /\ UNCHANGED <<ledger, backtester, risk, applied_filter, run, live>>

\* one turn of the trading loop of the trader woken
Turn(woken, context) ==
    \E latest \in [{"AAPL"} -> LatestData(woken, "AAPL")] :
        TraderBecomes("_trading_loop",
                      [analyzer |-> context.analyzer, latest |-> latest,
                       context |-> context],
                      _trading_loop(woken, context.analyzer, latest, context))

\* time_module.sleep, then one turn of the trading loop
TradingLoop ==
    /\ \E elapsed \in {0, 1}, context \in Contexts(Analyzers) :
           /\ trader.now + elapsed <= TradingDays
           /\ Len(trader.portfolio_manager.trades) < MaxLoopTrades
           /\ Turn([trader EXCEPT !.now = @ + elapsed], context)

\* the trader with the strategy as get_trading_signal left it
Signalled(r) ==
    [self |-> [trader EXCEPT !.improved_strategy = r.self],
     raised |-> r.raised, value |-> r.value, line |-> r.line]

\* get_trading_signal called on a frame that ends today
GetTradingSignal ==
    /\ \E market_filter \in AnalyzerFilters \cup {None},
          context \in Contexts({[raised |-> FALSE,
                                 value |-> [allow_trading |-> FALSE,
                                            position_size_multiplier |-> Num(1)]]}),
          data \in {DataFrame(0, << >>)}
                   \cup {DataFrame(60, row) : row \in TraderRows(trader.now)} :
           TraderBecomes("get_trading_signal",
                         [data |-> data, symbol |-> "AAPL",
                          capital |-> INITIAL_CAPITAL,
                          market_filter |-> market_filter, context |-> context],
                         Signalled(get_trading_signal(trader.improved_strategy,
                                                      data, "AAPL",
                                                      INITIAL_CAPITAL,
                                                      market_filter, context)))

NextTrader ==
    \/ TradingLoop
    \/ GetTradingSignal

SpecTrader == InitTrader /\ [][NextTrader]_vars

(***************************************************************************)
(* The sizing path: the three calculate_position_size methods and          *)
(* get_signal of a trained strategy, called with capitals, prices,         *)
(* volatilities and adjustment factors of the caller's choice.             *)
(***************************************************************************)
SizingCapitals     == {1000, INITIAL_CAPITAL}
SizingPrices       == {0, 10, 100, 500, 2500}
SizingVolatilities == {NaN, Frac(2, 100), Frac(1, 10)}
Confidences        == {Frac(1, 2), Num(1)}
\* position_size_multiplier of a filter: 0, the analyzer's 0.5 and 1.0
FilterMultipliers  == {Num(0), Frac(1, 2), Num(1)}
\* weight_adjustment of the bottom and the middle sectors
SectorWeights      == {Frac(7, 10), Num(1)}
\* the macro environments with their position_multiplier
AssessedEnvironments ==
    {[environment |-> "VERY_UNFAVORABLE", position_multiplier |-> Frac(3, 10)],
     [environment |-> "NEUTRAL", position_multiplier |-> Num(1)]}
TrainedStrategy == [ImprovedBuyLowSellHighStrategy EXCEPT !.is_trained = TRUE]

ImprovedCalculatePositionSize ==
    /\ \E capital \in SizingCapitals, price \in SizingPrices,
          volatility \in SizingVolatilities :
           Called("improved.calculate_position_size",
                  [capital |-> capital, price |-> price, volatility |-> volatility],
                  Returned("None",
                           improved_calculate_position_size(TrainedStrategy, capital,
                                                            price, volatility),
                           ""))

PositionManagerCalculatePositionSize ==
    /\ \E capital \in SizingCapitals, price \in SizingPrices,
          volatility \in SizingVolatilities \ {NaN},
          signal_strength \in Confidences :
           Called("position_manager.calculate_position_size",
                  [capital |-> capital, price |-> price, volatility |-> volatility,
                   stop_loss_pct |-> STOP_LOSS_PCT,
                   signal_strength |-> signal_strength],
                  position_manager_calculate_position_size(
                      PositionManager([initial_capital |-> capital]).self, "AAPL",
                      price, STOP_LOSS_PCT, volatility, signal_strength))

RiskCalculatePositionSize ==
    /\ \E capital \in SizingCapitals, price \in SizingPrices,
          risk_percentage \in {None, Frac(1, 2)} :
           Called("risk.calculate_position_size",
                  [capital |-> capital, price |-> price,
                   risk_percentage |-> risk_percentage],
                  risk_calculate_position_size(RiskManager(capital), "AAPL", price,
                                               risk_percentage))

GetSignal ==
    /\ \E capital \in SizingCapitals, price \in SizingPrices,
          prediction \in {0, 2}, multiplier \in FilterMultipliers,
          weight_adjustment \in SectorWeights, macro_env \in AssessedEnvironments :
           LET market_filter == [allow_trading |-> TRUE,
                                 position_size_multiplier |-> multiplier]
               data == DataFrame(60, TraderRow(0, price, prediction, Frac(7, 10)))
               context == Context([raised |-> FALSE, value |-> market_filter],
                                  [weight_adjustment |-> weight_adjustment],
                                  macro_env)
               r == get_signal(TrainedStrategy, data, "AAPL", capital,
                               market_filter, context)
           IN  Called("get_signal",
                      [data |-> data, symbol |-> "AAPL", capital |-> capital,
                       market_filter |-> market_filter, context |-> context],
                      [self |-> "None", raised |-> r.raised, value |-> r.value,
                       line |-> r.line])

NextSizing ==
    \/ ImprovedCalculatePositionSize
    \/ PositionManagerCalculatePositionSize
    \/ RiskCalculatePositionSize
    \/ GetSignal

SpecSizing == Init /\ [][NextSizing]_vars

\* the symbols the broker's account may hold, in the order api.list_positions()
\* lists them; the polling trader's symbol list comes first
ListedSymbols ==
    PollingSymbols \o <<"GOOGL", "AMZN", "NVDA", "META", "TSLA", "AMD", "INTC",
                        "NFLX", "ORCL", "CSCO", "IBM", "QCOM", "ADBE", "CRM",
                        "PYPL", "UBER", "SHOP", "DIS", "BA">>

\* _sync_portfolio step by step: positions = api.list_positions()
list_positions(api) ==
    LET RECURSIVE Listed(_)
        Listed(i) ==
            IF i > Len(ListedSymbols) THEN << >>
            ELSE IF ListedSymbols[i] \in DOMAIN api.positions
            THEN <<[symbol |-> ListedSymbols[i],
                    qty |-> api.positions[ListedSymbols[i]].qty,
                    avg_entry_price |-> api.positions[ListedSymbols[i]].avg_entry_price,
                    current_price |-> api.positions[ListedSymbols[i]].current_price]>>
                 \o Listed(i + 1)
            ELSE Listed(i + 1)
    IN  Listed(1)

\* _sync_portfolio: self.portfolio_manager.reset()
sync_reset(self) ==
    [self EXCEPT !.portfolio_manager = reset(@).self]

\* _sync_portfolio: self.portfolio_manager.cash = float(account.cash)
sync_cash(self, api) ==
    [self EXCEPT !.portfolio_manager.cash = api.cash]

\* _sync_portfolio: one turn of "for pos in positions"
sync_position(self, pos, today_) ==
    [self EXCEPT
       !.portfolio_manager.positions =
           Put(@, pos.symbol,
               Position(pos.symbol, pos.qty, Num(pos.avg_entry_price),
                        pos.current_price, today_)),
       !.current_prices = Put(@, pos.symbol, pos.current_price)]

\* _sync_portfolio run to its end with no other thread in between
RECURSIVE sync_positions(_, _, _)
sync_positions(self, listed, today_) ==
    IF listed = << >> THEN self
    ELSE sync_positions(sync_position(self, Head(listed), today_), Tail(listed),
                        today_)

_sync_portfolio(self, api, today_) ==
    sync_positions(sync_cash(sync_reset(self), api), list_positions(api), today_)

\* the trader, the broker and the module-level managers as one record
World ==
    [self             |-> polling.self,
     api              |-> polling.api,
     orders           |-> polling.orders,
     position_manager |-> modules.position_manager,
     risk_manager     |-> modules.risk_manager,
     today            |-> wall_clock,
     line             |-> ""]

\* where a thread stands after a step, with what the step handed back
Stands(w, pc, value) == [w |-> w, pc |-> pc, value |-> value]

\* _trading_loop from _check_daily_loss_limit to the for statement
trading_loop_loss_checked(w, loss) ==
    IF ~loss.value
    THEN Stands(Working(w, emergency_stop_trading(loss.self)), "ended",
                "emergency_stop")
    ELSE Stands(Working(w, loss.self), "for", "cycle")

\* _trading_loop from _check_daily_limits on
trading_loop_limits_checked(w, limits) ==
    IF ~limits.value
    THEN Stands(Working(w, limits.self), "while", "daily_limit")
    ELSE trading_loop_loss_checked(w, _check_daily_loss_limit(limits.self))

\* _trading_loop from risk_manager.allows_trading() on; filtered is the risk
\* manager after _get_market_filter applied the filter to it
trading_loop_filtered(w, filtered) ==
    IF ~allows_trading(filtered).value
    THEN Stands([w EXCEPT !.risk_manager = filtered], "while", "filter_wait")
    ELSE trading_loop_limits_checked(
             [w EXCEPT !.risk_manager = filtered],
             alpaca_check_daily_limits(w.self, w.today))

\* _trading_loop whose while statement tests emergency_stop alone
trading_loop_while_flag_unread(w, market_open, market_filter) ==
    IF w.self.emergency_stop
    THEN Stands(w, "ended", "exit")
    ELSE IF ~market_open THEN Stands(w, "while", "market_closed")
    ELSE trading_loop_filtered(
             w, apply_market_filter(w.risk_manager, market_filter).self)

\* _trading_loop of paper_trader.py from the test of its while statement to
\* its for statement
trading_loop_while(w, market_open, market_filter) ==
    IF ~(w.self.is_running /\ ~w.self.emergency_stop)
    THEN Stands(w, "ended", "exit")
    ELSE IF ~market_open THEN Stands(w, "while", "market_closed")
    ELSE trading_loop_filtered(
             w, apply_market_filter(w.risk_manager, market_filter).self)

\* _trading_loop of paper_trader.py with the test of the flags at line 320
\* left out of the for statement
trading_loop_for_unchecked(w, index, market_filter, latest, signal_info, accepted) ==
    Stands(alpaca_process_symbol_signal(
               alpaca_check_stop_loss_take_profit(w, w.self.symbols[index],
                                                  accepted),
               w.self.symbols[index], market_filter, latest, signal_info,
               accepted),
           IF index = Len(w.self.symbols) THEN "while" ELSE "for",
           "processed")

\* _trading_loop of paper_trader.py: one turn of "for symbol in
\* self.symbols", which tests the flags before it handles the symbol
trading_loop_for(w, index, market_filter, latest, signal_info, accepted) ==
    IF ~w.self.is_running \/ w.self.emergency_stop
    THEN Stands(w, "while", "break")
    ELSE Stands(alpaca_process_symbol_signal(
                    alpaca_check_stop_loss_take_profit(w, w.self.symbols[index],
                                                       accepted),
                    w.self.symbols[index], market_filter, latest, signal_info,
                    accepted),
                IF index = Len(w.self.symbols) THEN "while" ELSE "for",
                "processed")

\* what get_trading_signal may hand back for a symbol
SignalInfos(symbol) ==
    {[symbol |-> symbol, signal |-> "HOLD", confidence |-> Frac(1, 2)],
     [symbol |-> symbol, signal |-> "BUY", confidence |-> Frac(7, 10),
      position_size |-> 10],
     [symbol |-> symbol, signal |-> "SELL", confidence |-> Frac(7, 10)]}

InitPolling ==
    /\ initial_capital   = Capital
    /\ cash              = Capital
    /\ positions         = << >>
    /\ trades            = << >>
    /\ daily_values      = << >>
    /\ portfolio_history = << >>
    /\ total_commission  = 0
    /\ total_trades      = 0
    /\ winning_trades    = 0
    /\ losing_trades     = 0
    /\ backtester        = StockBacktester(Capital)
    /\ risk              = RiskManager(INITIAL_CAPITAL)
    /\ applied_filter    = RiskManager(INITIAL_CAPITAL).market_filter_state
    /\ run               = Simulation(<< >>)
    /\ trader            = PaperTrader(<< >>, << >>, FALSE)
    /\ polling           \in {Polling(blocked, account_cash) :
                                 blocked \in BOOLEAN, account_cash \in AccountCash}
    /\ modules           = Modules
    /\ wall_clock        = 0
    /\ traders           = << >>
    /\ call              = [op |-> "PaperTrader", args |-> [symbols |-> PollingSymbols]]
    /\ ret               = [raised |-> FALSE, value |-> "None"]
    /\ logged            = ""

\* the state after a step of one of the threads of the polling trader
PollingBecomes(op, args, stands, trading_thread, main_thread) ==
    /\ polling' = [self |-> stands.w.self, api |-> stands.w.api,
                   orders |-> stands.w.orders,
                   trading_thread |-> trading_thread,
                   main_thread |-> main_thread]
    /\ modules' = [modules EXCEPT !.position_manager = stands.w.position_manager,
                                  !.risk_manager = stands.w.risk_manager]
    /\ call' = [op |-> op, args |-> args]
    /\ ret' = [raised |-> FALSE, value |-> stands.value]
    /\ logged' = stands.w.line
    /\ UNCHANGED <<ledger, backtester, risk, applied_filter, run, trader, wall_clock,
                   traders>>

\* the trading thread at the test of its while statement
TradingThreadStands(stands, market_filter) ==
    PollingBecomes("_trading_loop.while", [market_filter |-> market_filter],
                   stands,
                   [pc |-> stands.pc, index |-> 1, market_filter |-> market_filter],
                   polling.main_thread)

TradingLoopWhile ==
    /\ polling.trading_thread.pc = "while"
    /\ \E market_open \in BOOLEAN, market_filter \in AnalyzerFilters :
           /\ polling.self.is_running /\ ~polling.self.emergency_stop
                  => polling.orders < MaxOrders
           /\ TradingThreadStands(trading_loop_while(World, market_open, market_filter),
                                  market_filter)

\* the trading thread at the head of its for statement
TradingThreadTurned(stands, symbol) ==
    PollingBecomes("_trading_loop.for", [symbol |-> symbol], stands,
                   [polling.trading_thread EXCEPT
                      !.pc = stands.pc,
                      !.index = IF stands.pc = "for" THEN @ + 1 ELSE 1],
                   polling.main_thread)

TradingLoopFor ==
    /\ polling.trading_thread.pc = "for"
    /\ \E latest \in {0} \cup PollingPrices, accepted \in BOOLEAN,
          signal_info \in SignalInfos(polling.self.symbols[polling.trading_thread.index]) :
           TradingThreadTurned(
               trading_loop_for(World, polling.trading_thread.index,
                                polling.trading_thread.market_filter, latest,
                                signal_info, accepted),
               polling.self.symbols[polling.trading_thread.index])

\* start_trading up to the call of _monitoring_loop: with emergency_stop set
\* it returns at once; the data loaded closes at 100 for every symbol
start_trading(w) ==
    IF w.self.emergency_stop THEN Stands(w, "idle", "refused")
    ELSE Stands(Working(w, _sync_portfolio(
                               [w.self EXCEPT
                                  !.is_running = TRUE,
                                  !.current_prices =
                                      [symbol \in {w.self.symbols[i] :
                                                      i \in DOMAIN w.self.symbols}
                                          |-> 100]],
                               w.api, w.today)),
                "while", "started")

MainThreadStarted(stands) ==
    PollingBecomes("start_trading", << >>, stands,
                   IF stands.pc = "while"
                   THEN [pc |-> "while", index |-> 1,
                         market_filter |-> polling.trading_thread.market_filter]
                   ELSE polling.trading_thread,
                   [pc |-> stands.pc, positions |-> << >>])

\* start_trading is called while no thread of the trader runs
StartTrading ==
    /\ polling.main_thread.pc = "idle"
    /\ polling.trading_thread.pc \in {"unstarted", "ended"}
    /\ MainThreadStarted(start_trading(World))

\* _monitoring_loop from the test of its while statement to the call of
\* portfolio_manager.reset() in _sync_portfolio, or to its sleep while the
\* market is closed; both branches value the portfolio first
monitoring_loop_while(w, market_open) ==
    IF ~(w.self.is_running /\ ~w.self.emergency_stop)
    THEN Stands(w, "idle", "return")
    ELSE Stands([w EXCEPT !.self.portfolio_manager =
                              get_portfolio_value(@, w.self.current_prices).self],
                IF market_open THEN "reset" ELSE "while",
                IF market_open THEN "sync" ELSE "status")

MainThreadStands(stands, listed) ==
    PollingBecomes("_monitoring_loop.while", << >>, stands,
                   polling.trading_thread,
                   [pc |-> stands.pc,
                    positions |-> IF stands.pc = "reset" THEN listed ELSE << >>])

MonitoringLoopWhile ==
    /\ polling.main_thread.pc = "while"
    /\ \E market_open \in BOOLEAN :
           MainThreadStands(monitoring_loop_while(World, market_open),
                            list_positions(polling.api))

\* the statement of _sync_portfolio the main thread stands at
sync_step(w, pc, listed) ==
    IF pc = "reset" THEN Stands(Working(w, sync_reset(w.self)), "cash", "reset")
    ELSE IF pc = "cash"
    THEN Stands(Working(w, sync_cash(w.self, w.api)),
                IF listed = << >> THEN "while" ELSE "positions", "cash")
    ELSE Stands(Working(w, sync_position(w.self, Head(listed), w.today)),
                IF Tail(listed) = << >> THEN "while" ELSE "positions", "position")

MainThreadSynced(stands) ==
    PollingBecomes("_sync_portfolio", << >>, stands, polling.trading_thread,
                   [pc |-> stands.pc,
                    positions |-> IF stands.value = "position"
                                  THEN Tail(polling.main_thread.positions)
                                  ELSE polling.main_thread.positions])

SyncPortfolio ==
    /\ polling.main_thread.pc \in {"reset", "cash", "positions"}
    /\ MainThreadSynced(sync_step(World, polling.main_thread.pc,
                                  polling.main_thread.positions))

\* stop_trading, called on a thread of the caller's: it clears the flag,
\* waits up to five seconds for the trading thread and values the portfolio
\* for the final log
StopTrading ==
    /\ polling.self.is_running
    /\ polling' = [polling EXCEPT
                      !.self.is_running = FALSE,
                      !.self.portfolio_manager =
                          get_portfolio_value(@, polling.self.current_prices).self]
    /\ call' = [op |-> "stop_trading", args |-> << >>]
    /\ ret' = [raised |-> FALSE, value |-> "None"]
    /\ logged' = ""
    /\ UNCHANGED <<ledger, backtester, risk, applied_filter, run, trader,
                   modules, wall_clock, traders>>

\* midnight
NextDay ==
    /\ wall_clock < PollingDays
    /\ wall_clock' = wall_clock + 1
    /\ call' = [op |-> "date.today", args |-> << >>]
    /\ ret' = [raised |-> FALSE, value |-> wall_clock + 1]
    /\ logged' = ""
    /\ UNCHANGED <<ledger, backtester, risk, applied_filter, run, trader,
                   polling, modules, traders>>

TradingThread == TradingLoopWhile \/ TradingLoopFor
MainThread    == StartTrading \/ MonitoringLoopWhile \/ SyncPortfolio

NextPolling ==
    \/ TradingLoopWhile
    \/ TradingLoopFor
    \/ StartTrading
    \/ MonitoringLoopWhile
    \/ SyncPortfolio
    \/ StopTrading
    \/ NextDay

SpecPolling == InitPolling /\ [][NextPolling]_vars

(***************************************************************************)
(* Two traders of local_simulator.py made in one process.  Each has its    *)
(* own PortfolioManager; position_manager and improved_strategy are the    *)
(* objects their modules made on import, and every trader works on them.   *)
(***************************************************************************)
RunIds == {1, 2}

\* the attributes of a PaperTrader that are its own
Own(self) ==
    [f \in DOMAIN self \ {"position_manager", "improved_strategy", "now"} |-> self[f]]

\* a PaperTrader with the module-level objects it reaches and the clock
Bound(own) ==
    With(own, [position_manager  |-> modules.position_manager,
               improved_strategy |-> modules.improved_strategy,
               now               |-> wall_clock])

\* the rows the collector may deliver to a trader on a day
RunRows(day) ==
    {TraderRow(day, 100, prediction, Frac(7, 10)) : prediction \in {0, 1, 2}}
RunLatest(self) ==
    {DataFrame(0, << >>)}
    \cup IF self.current_data["AAPL"].latest.Date < self.now
         THEN {DataFrame(1, row) : row \in RunRows(self.now)}
         ELSE {}
\* the market filter allows trading, sector and macro are neutral
RunContext ==
    Context([raised |-> FALSE,
             value |-> [allow_trading |-> TRUE,
                        position_size_multiplier |-> Num(1)]],
            [weight_adjustment |-> Num(1)],
            [environment |-> "NEUTRAL", position_multiplier |-> Num(1)])

InitRuns ==
    /\ initial_capital   = Capital
    /\ cash              = Capital
    /\ positions         = << >>
    /\ trades            = << >>
    /\ daily_values      = << >>
    /\ portfolio_history = << >>
    /\ total_commission  = 0
    /\ total_trades      = 0
    /\ winning_trades    = 0
    /\ losing_trades     = 0
    /\ backtester        = StockBacktester(Capital)
    /\ risk              = RiskManager(INITIAL_CAPITAL)
    /\ applied_filter    = RiskManager(INITIAL_CAPITAL).market_filter_state
    /\ run               = Simulation(<< >>)
    /\ trader            = PaperTrader(<< >>, << >>, FALSE)
    /\ polling           = Polling(FALSE, INITIAL_CAPITAL)
    /\ modules           = [Modules EXCEPT !.improved_strategy.is_trained = TRUE]
    /\ wall_clock        = 0
    /\ traders           = [i \in RunIds |-> None]
    /\ call              = [op |-> "import", args |-> << >>]
    /\ ret               = [raised |-> FALSE, value |-> "None"]
    /\ logged            = ""

\* the state after the call op(args) on the trader of run i that handed
\* back r
RunBecomes(i, op, args, r) ==
    /\ traders' = [traders EXCEPT ![i] = Own(r.self)]
    /\ modules' = [modules EXCEPT !.position_manager = r.self.position_manager,
                                  !.improved_strategy = r.self.improved_strategy]
    /\ call' = [op |-> op, args |-> args]
    /\ ret' = [raised |-> r.raised, value |-> r.value]
    /\ logged' = r.line
    /\ UNCHANGED <<ledger, backtester, risk, applied_filter, run, trader,
                   polling, wall_clock>>

\* PaperTrader.__init__ of local_simulator.py, which clears the module's
\* position_manager, then _load_initial_data with a frame for AAPL
local_simulator_PaperTrader(symbols, loaded) ==
    Returned([PaperTrader(symbols, loaded, TRUE) EXCEPT
                 !.position_manager =
                     [modules.position_manager EXCEPT
                         !.current_capital = INITIAL_CAPITAL,
                         !.positions = << >>],
                 !.improved_strategy = modules.improved_strategy],
             "None", "")

Construct ==
    /\ \E i \in RunIds :
           /\ IsNone(traders[i])
           /\ RunBecomes(i, "PaperTrader", [run |-> i, symbols |-> TraderSymbols],
                         local_simulator_PaperTrader(
                             TraderSymbols,
                             [symbol \in {"AAPL"} |->
                                 DataFrame(60, TraderRow(0, 100, 1, Frac(7, 10)))]))

\* one turn of the trading loop of the trader of run i
RunTurn(i, woken) ==
    \E latest \in [{"AAPL"} -> RunLatest(woken)] :
        RunBecomes(i, "_trading_loop", [run |-> i, latest |-> latest],
                   _trading_loop(woken, RunContext.analyzer, latest, RunContext))

RunTradingLoop ==
    /\ \E i \in RunIds :
           /\ ~IsNone(traders[i])
           /\ Len(traders[i].portfolio_manager.trades) < MaxLoopTrades
           /\ RunTurn(i, Bound(traders[i]))

RunNextDay ==
    /\ wall_clock < TradingDays
    /\ wall_clock' = wall_clock + 1
    /\ call' = [op |-> "date.today", args |-> << >>]
    /\ ret' = [raised |-> FALSE, value |-> wall_clock + 1]
    /\ logged' = ""
    /\ UNCHANGED <<ledger, backtester, risk, applied_filter, run, trader,
                   polling, modules, traders>>

NextRuns ==
    \/ Construct
    \/ RunTradingLoop
    \/ RunNextDay

SpecRuns == InitRuns /\ [][NextRuns]_vars



(***************************************************************************)
(* Properties of the ledger.                                               *)
(***************************************************************************)
\* the step is a call of execute_trade with this order type
IsTrade(order_type) ==
    /\ call'.op = "execute_trade"
    /\ call'.args.order_type = order_type

\* the step left cash, positions, trade log, snapshot logs and counters alone
NoMutation == UNCHANGED ledger

\* the last call was execute_trade with this order type
WasTrade(order_type) ==
    /\ call.op = "execute_trade"
    /\ call.args.order_type = order_type

\* the net cash movement the trade log records
RECURSIVE CashFlow(_)
CashFlow(log) ==
    IF log = << >> THEN 0
    ELSE LET t == Head(log)
             amount == IF t.order_type = "BUY"
                       THEN 0 - (t.quantity * t.price + t.commission)
                       ELSE t.quantity * t.price - t.commission
         IN  amount + CashFlow(Tail(log))

\* C1: cash = initial_capital - sum of (quantity*price + commission) over the
\* recorded BUY trades + sum of (quantity*price - commission) over the
\* recorded SELL trades, after any sequence of execute_trade calls.
C1_CashConservation == cash = initial_capital + CashFlow(trades)

\* a BUY and a SELL are on record, one of them with a commission, and the
\* last call was a rejected order
C1_Witness ==
    /\ \E i \in DOMAIN trades : trades[i].order_type = "BUY"
    /\ \E i \in DOMAIN trades : trades[i].order_type = "SELL"
    /\ \E i \in DOMAIN trades : trades[i].commission > 0
    /\ call.op = "execute_trade"
    /\ call.args.order_type \in {"BUY", "SELL"}
    /\ ret.value = FALSE

\* C2: cash is never negative in any state reachable by execute_trade,
\* get_portfolio_value, record_daily_value and reset.
C2_CashNeverNegative == cash >= 0

\* cash is below zero although every recorded trade has a positive quantity:
\* a SELL whose commission exceeds quantity*price + cash was accepted
C2_Witness ==
    /\ cash < 0
    /\ trades # << >>
    /\ \A i \in DOMAIN trades : trades[i].quantity > 0
    /\ WasTrade("SELL")
    /\ ret.value = TRUE

\* C3: every entry of the positions map has a quantity strictly above zero.
C3_PositiveQuantities ==
    \A s \in DOMAIN positions : positions[s].quantity > 0

\* a BUY of quantity 0 was accepted and left a position of quantity 0
C3_Witness ==
    /\ WasTrade("BUY")
    /\ ret.value = TRUE
    /\ call.args.symbol \in DOMAIN positions
    /\ positions[call.args.symbol].quantity = 0

\* C4: a BUY whose cost quantity*price + commission exceeds the cash returns
\* false and leaves cash, positions, trade log and counters as they were.
C4_UnaffordableBuyRejected ==
    [][(/\ IsTrade("BUY")
        /\ call'.args.quantity * call'.args.price + call'.args.commission > cash)
          => (ret'.value = FALSE /\ NoMutation)]_vars

\* on a fresh ledger, a BUY costing more than the whole capital was refused
C4_Witness ==
    /\ WasTrade("BUY")
    /\ call.args.quantity * call.args.price > initial_capital
    /\ ret.value = FALSE
    /\ logged = "buy_insufficient_cash"
    /\ cash = initial_capital
    /\ trades = << >>

\* C5: a BUY or SELL with quantity <= 0 returns false and changes nothing.
C5_NonPositiveQuantityRejected ==
    [][(/\ IsTrade("BUY") \/ IsTrade("SELL")
        /\ call'.args.quantity <= 0)
          => (ret'.value = FALSE /\ NoMutation)]_vars

\* a BUY of quantity 0 returned true and is on the trade log and the counter
C5_Witness ==
    /\ WasTrade("BUY")
    /\ call.args.quantity = 0
    /\ ret.value = TRUE
    /\ logged = "buy_done"
    /\ Len(trades) = 1
    /\ trades[1].quantity = 0
    /\ total_trades = 1

\* C6: a SELL for a symbol with no tracked position returns false and leaves
\* cash, positions, trade log and counters unchanged.
C6_UnheldSellRejected ==
    [][(/\ IsTrade("SELL")
        /\ call'.args.symbol \notin DOMAIN positions)
          => (ret'.value = FALSE /\ NoMutation)]_vars

\* a SELL of a symbol that is not held was refused while another is held
C6_Witness ==
    /\ WasTrade("SELL")
    /\ call.args.symbol \notin DOMAIN positions
    /\ ret.value = FALSE
    /\ logged = "sell_not_held"
    /\ positions # << >>
    /\ trades # << >>

\* C7: a SELL for a held symbol with a quantity above the held, positive quantity
\* succeeds for exactly the held quantity: the recorded trade and the cash
\* credit use the held quantity, the position is removed and no position
\* quantity is negative afterwards.
C7_OversizedSellClamped ==
    [][LET o == call'.args
       IN  (/\ IsTrade("SELL")
            /\ o.symbol \in DOMAIN positions
            /\ positions[o.symbol].quantity > 0
            /\ o.quantity > positions[o.symbol].quantity)
              => LET held == positions[o.symbol].quantity
                 IN  /\ ret'.value = TRUE
                     /\ Len(trades') = Len(trades) + 1
                     /\ trades'[Len(trades')].quantity = held
                     /\ cash' = cash + held * o.price - o.commission
                     /\ o.symbol \notin DOMAIN positions'
                     /\ \A s \in DOMAIN positions' :
                           positions'[s].quantity >= 0]_vars

\* PortfolioManager refused a SELL of more than the held, positive quantity
C7_Witness ==
    /\ WasTrade("SELL")
    /\ call.args.symbol \in DOMAIN positions
    /\ positions[call.args.symbol].quantity > 0
    /\ call.args.quantity > positions[call.args.symbol].quantity
    /\ ret.value = FALSE
    /\ logged = "sell_insufficient_quantity"

\* C7 on the other ledger: StockBacktester.sell of more than the held shares
\* sells exactly the held shares, credits cash for them and removes the
\* position; this one holds under SpecBacktester
C7_BacktesterSellClamped ==
    [][LET o == call'.args
       IN  (/\ call'.op = "StockBacktester.sell"
            /\ o.symbol \in DOMAIN backtester.positions
            /\ o.shares > backtester.positions[o.symbol].shares)
              => LET held == backtester.positions[o.symbol].shares
                     log  == backtester'.trades
                 IN  /\ ret'.value = TRUE
                     /\ Len(log) = Len(backtester.trades) + 1
                     /\ log[Len(log)].shares = held
                     /\ backtester'.cash = backtester.cash + held * o.price
                     /\ o.symbol \notin DOMAIN backtester'.positions
                     /\ \A s \in DOMAIN backtester'.positions :
                           backtester'.positions[s].shares >= 0]_vars

\* the StockBacktester sold the 1 share it held when asked to sell 2
C7_BacktesterWitness ==
    /\ call.op = "StockBacktester.sell"
    /\ call.args.shares = 2
    /\ ret.value = TRUE
    /\ backtester.trades # << >>
    /\ backtester.trades[Len(backtester.trades)].type = "SELL"
    /\ backtester.trades[Len(backtester.trades)].shares = 1
    /\ call.args.symbol \notin DOMAIN backtester.positions

\* What the trade log says about symbol s: the BUY trades recorded since its
\* position was last opened, and whether a SELL has touched that position.
RECURSIVE Replay(_, _, _)
Replay(log, s, acc) ==
    IF log = << >> THEN acc
    ELSE LET t == Head(log)
             next == IF t.symbol # s THEN acc
                     ELSE IF t.order_type = "BUY"
                     THEN [acc EXCEPT !.quantity = @ + t.quantity,
                                      !.buys = Append(@, t)]
                     ELSE IF t.quantity = acc.quantity
                     THEN [quantity |-> 0, buys |-> << >>, only_buys |-> TRUE]
                     ELSE [acc EXCEPT !.quantity = @ - t.quantity,
                                      !.only_buys = FALSE]
         IN  Replay(Tail(log), s, next)

BuysOf(s) == Replay(trades, s, [quantity |-> 0, buys |-> << >>, only_buys |-> TRUE])

RECURSIVE SumQuantity(_)
SumQuantity(buys) ==
    IF buys = << >> THEN 0 ELSE Head(buys).quantity + SumQuantity(Tail(buys))

RECURSIVE SumCost(_)
SumCost(buys) ==
    IF buys = << >> THEN 0
    ELSE Head(buys).quantity * Head(buys).price + SumCost(Tail(buys))

\* every ordering of a sequence
Perms(q) ==
    LET n == Len(q)
    IN  {[i \in 1..n |-> q[f[i]]] :
           f \in {g \in [1..n -> 1..n] :
                    \A a, b \in 1..n : a # b => g[a] # g[b]}}

\* what the buys cost together, commissions included
RECURSIVE SumTotalCost(_)
SumTotalCost(buys) ==
    IF buys = << >> THEN 0
    ELSE total_cost(Head(buys).quantity, Head(buys).price, Head(buys).commission)
         + SumTotalCost(Tail(buys))

\* the ledger after execute_trade was called with each of the buys in turn
RECURSIVE BuyAll(_, _)
BuyAll(buys, self) ==
    IF buys = << >> THEN self
    ELSE LET t == Head(buys)
         IN  BuyAll(Tail(buys),
                    execute_trade(self, t.symbol, "BUY", t.quantity, t.price,
                                  t.timestamp, t.commission).self)

\* the position of s is the weighted average of the buys, and a fresh ledger
\* with the cash for them reaches the same position in whatever order the
\* buys are placed
WeightedAverageOf(s, buys) ==
    /\ SumQuantity(buys) # 0
    /\ positions[s].quantity = SumQuantity(buys)
    /\ positions[s].avg_price = Frac(SumCost(buys), SumQuantity(buys))
    /\ \A order \in Perms(buys) :
          LET built == BuyAll(order, PortfolioManager(SumTotalCost(buys)))
          IN  /\ s \in DOMAIN built.positions
              /\ built.positions[s].quantity = positions[s].quantity
              /\ built.positions[s].avg_price = positions[s].avg_price

\* C8: after any sequence of successful buys of one symbol with no
\* intervening sell, avg_price = sum(q_i*p_i)/sum(q_i) over those buys, and
\* every permutation of the buys yields the same quantity and avg_price.
C8_WeightedAverageCost ==
    \A s \in DOMAIN positions :
       BuysOf(s).only_buys => WeightedAverageOf(s, BuysOf(s).buys)

\* the same statement for positions built only from buys of a positive
\* quantity; this one holds of the ledger
C8_WeightedAverageCostOfPositiveBuys ==
    \A s \in DOMAIN positions :
       LET b == BuysOf(s)
       IN  (b.only_buys /\ \A i \in DOMAIN b.buys : b.buys[i].quantity > 0)
              => WeightedAverageOf(s, b.buys)

\* a position built by accepted buys whose quantities add up to zero
C8_Witness ==
    \E s \in DOMAIN positions :
       /\ BuysOf(s).only_buys
       /\ BuysOf(s).buys # << >>
       /\ SumQuantity(BuysOf(s).buys) = 0

\* C9: a successful SELL of quantity at price with commission from a position
\* with average cost a records pnl (price - a)*quantity - commission on the
\* trade, credits cash by quantity*price - commission and leaves the
\* remaining position's average cost unchanged.
C9_SellSettlement ==
    [][(IsTrade("SELL") /\ ret'.value = TRUE)
            => LET o == call'.args
                   a == positions[o.symbol].avg_price
                   realized == FracSub(FracMul(FracSub(Num(o.price), a),
                                               Num(o.quantity)),
                                       Num(o.commission))
                   recorded == trades'[Len(trades')]
               IN  /\ Len(trades') = Len(trades) + 1
                   /\ recorded.order_type = "SELL"
                   /\ recorded.symbol = o.symbol
                   /\ recorded.quantity = o.quantity
                   /\ recorded.pnl = realized
                   /\ cash' = cash + o.quantity * o.price - o.commission
                   /\ o.symbol \in DOMAIN positions'
                         => positions'[o.symbol].avg_price = a]_vars

\* scenario A in the model's amounts: buy 2 @ 1, the price rises to 2, full
\* sell with zero commission: realized pnl 2, cash = capital + 2, no position
C9_Witness ==
    /\ Len(trades) = 2
    /\ trades[1].order_type = "BUY"  /\ trades[1].quantity = 2
    /\ trades[1].price = 1           /\ trades[1].commission = 0
    /\ trades[2].order_type = "SELL" /\ trades[2].quantity = 2
    /\ trades[2].price = 2           /\ trades[2].commission = 0
    /\ trades[1].symbol = trades[2].symbol
    /\ trades[2].pnl = Num(2)
    /\ cash = initial_capital + 2
    /\ positions = << >>
    /\ WasTrade("SELL")

\* C10: a SELL of the whole held quantity removes the symbol from the
\* positions map, and the next BUY of that symbol creates a new position whose
\* average cost is that buy's price and whose realized pnl is zero.
C10_FullSellThenFreshBuy ==
    [][LET o == call'.args
       IN  /\ (/\ IsTrade("SELL")
                /\ o.symbol \in DOMAIN positions
                /\ positions[o.symbol].quantity = o.quantity)
                  => (ret'.value = TRUE /\ o.symbol \notin DOMAIN positions')
           /\ (/\ IsTrade("BUY")
                /\ o.symbol \notin DOMAIN positions
                /\ ret'.value = TRUE)
                  => /\ o.symbol \in DOMAIN positions'
                     /\ positions'[o.symbol].quantity = o.quantity
                     /\ positions'[o.symbol].avg_price = Num(o.price)
                     /\ positions'[o.symbol].realized_pnl = Num(0)]_vars

\* bought, sold in full at a profit, bought again at another price: the open
\* position carries the last buy's price and no realized pnl
C10_Witness ==
    /\ Len(trades) = 3
    /\ trades[1].order_type = "BUY"
    /\ trades[2].order_type = "SELL"
    /\ trades[3].order_type = "BUY"
    /\ trades[1].symbol = trades[2].symbol
    /\ trades[2].symbol = trades[3].symbol
    /\ trades[1].quantity > 0
    /\ trades[2].quantity = trades[1].quantity
    /\ trades[2].pnl # Num(0)
    /\ trades[3].price # trades[1].price
    /\ trades[3].quantity > 0
    /\ DOMAIN positions = {trades[3].symbol}
    /\ positions[trades[3].symbol].avg_price = Num(trades[3].price)
    /\ positions[trades[3].symbol].realized_pnl = Num(0)


\* the quantity of symbol s in a positions map, 0 when it is not held
HeldQuantity(held_positions, s) ==
    IF s \in DOMAIN held_positions THEN held_positions[s].quantity ELSE 0

\* C11: execute_trade is all-or-nothing.  A BUY/SELL that returns true
\* appends exactly one trade record, the call's, to the end of an otherwise
\* unchanged log and updates the position, the cash and the counters by the
\* call's amounts; one that returns false (a caught exception included)
\* leaves cash, positions, trade log and counters exactly as before.
C11_AllOrNothing ==
    [][(IsTrade("BUY") \/ IsTrade("SELL"))
         => LET o    == call'.args
                sign == IF o.order_type = "BUY" THEN 1 ELSE 0 - 1
            IN  IF ret'.value
                THEN /\ Len(trades') = Len(trades) + 1
                     /\ SubSeq(trades', 1, Len(trades)) = trades
                     /\ LET t == trades'[Len(trades')]
                        IN  /\ t.symbol = o.symbol
                            /\ t.order_type = o.order_type
                            /\ t.quantity = o.quantity
                            /\ t.price = o.price
                            /\ t.timestamp = o.timestamp
                            /\ t.commission = o.commission
                     /\ HeldQuantity(positions', o.symbol)
                           = HeldQuantity(positions, o.symbol) + sign * o.quantity
                     /\ \A s \in (DOMAIN positions \cup DOMAIN positions') \ {o.symbol} :
                           /\ s \in DOMAIN positions /\ s \in DOMAIN positions'
                           /\ positions'[s] = positions[s]
                     /\ cash' = cash - sign * o.quantity * o.price - o.commission
                     /\ total_trades' = total_trades + 1
                     /\ total_commission' = total_commission + o.commission
                ELSE NoMutation]_vars

\* a BUY that raised ZeroDivisionError inside was answered with false, after
\* earlier trades had been recorded
C11_Witness ==
    /\ WasTrade("BUY")
    /\ ret.value = FALSE
    /\ logged = "trade_failed"
    /\ trades # << >>
    /\ call.args.commission > 0

\* C12: after reset() the ledger equals a freshly constructed one with the
\* same initial capital: cash = initial_capital, no positions, empty trade
\* log, empty daily_values and portfolio_history, all counters zero.
C12_ResetRestoresFreshLedger ==
    call.op = "reset" => Self = PortfolioManager(initial_capital)

\* after reset() the snapshots taken before it are still in portfolio_history
C12_Witness ==
    /\ call.op = "reset"
    /\ portfolio_history # << >>
    /\ daily_values = << >>
    /\ trades = << >>
    /\ cash = initial_capital

\* the price a position is valued at: the input's price, else its last mark
MarkOf(held_positions, current_prices, s) ==
    IF s \in DOMAIN current_prices THEN current_prices[s]
    ELSE held_positions[s].current_price

RECURSIVE SumMarked(_, _, _)
SumMarked(held_positions, current_prices, S) ==
    IF S = {} THEN 0
    ELSE LET s == CHOOSE x \in S : TRUE
         IN  held_positions[s].quantity * MarkOf(held_positions, current_prices, s)
             + SumMarked(held_positions, current_prices, S \ {s})

\* C13: get_portfolio_value(prices) returns cash + sum of quantity * mark,
\* re-marks the positions that have a price in the input (unrealized pnl =
\* (price - avg_price) * quantity), leaves the others with their previous
\* mark, and changes no cash, quantity, average cost, trade log or counter.
C13_PortfolioValueAndFrame ==
    [][call'.op = "get_portfolio_value"
         => LET prices == call'.args.current_prices
            IN  /\ ret'.value = cash + SumMarked(positions, prices, DOMAIN positions)
                /\ DOMAIN positions' = DOMAIN positions
                /\ \A s \in DOMAIN positions :
                      LET old == positions[s]
                          new == positions'[s]
                      IN  /\ new.quantity = old.quantity
                          /\ new.avg_price = old.avg_price
                          /\ new.realized_pnl = old.realized_pnl
                          /\ new.current_price = MarkOf(positions, prices, s)
                          /\ new.unrealized_pnl =
                                IF s \in DOMAIN prices
                                THEN FracMul(FracSub(Num(prices[s]), old.avg_price),
                                             Num(old.quantity))
                                ELSE old.unrealized_pnl
                /\ UNCHANGED <<initial_capital, cash, trades, daily_values,
                               portfolio_history, total_commission, total_trades,
                               winning_trades, losing_trades>>]_vars

\* the last valuation re-marked one held symbol away from its cost and left
\* another, marked earlier, at its previous mark
C13_Witness ==
    /\ call.op = "get_portfolio_value"
    /\ \E s \in DOMAIN positions \ DOMAIN call.args.current_prices :
          /\ positions[s].quantity > 0
          /\ Num(positions[s].current_price) # positions[s].avg_price
    /\ \E s \in DOMAIN positions \cap DOMAIN call.args.current_prices :
          /\ positions[s].quantity > 0
          /\ positions[s].unrealized_pnl # Num(0)
    /\ ret.value > cash


(***************************************************************************)
(* Properties of the RiskManager.                                          *)
(***************************************************************************)
\* the alerts of one check among the alerts a call returned
AlertsOf(alerts, kind) == SelectSeq(alerts, LAMBDA a : a.kind = kind)

\* the dollars lost from initial capital at a portfolio value
LossAt(portfolio_value) == FracSub(Num(risk.initial_capital), portfolio_value)

\* C14: once emergency_stop is set it stays true through check_portfolio_risk,
\* apply_market_filter, adapt_to_market_conditions and update_capital, and
\* becomes false only by reset_emergency_stop().
C14_EmergencyStopSticky ==
    [][(risk.emergency_stop /\ call'.op # "reset_emergency_stop")
          => risk'.emergency_stop]_vars

\* the stop is still set after a check of a portfolio that is back above its
\* initial capital and raised no alert
C14_Witness ==
    /\ risk.emergency_stop
    /\ call.op = "check_portfolio_risk"
    /\ FracLt(Num(risk.initial_capital), call.args.portfolio_value)
    /\ ~ret.raised
    /\ ret.value = << >>

\* C15: allows_trading() is true iff emergency_stop is false and the most
\* recently applied market filter allows trading.
C15_AllowsTradingIff ==
    /\ allows_trading(risk).value
          = (~risk.emergency_stop /\ get(applied_filter, "allow_trading", TRUE))
    /\ call.op = "allows_trading"
          => ret.value
               = (~risk.emergency_stop /\ get(applied_filter, "allow_trading", TRUE))

\* allows_trading() answered false with no emergency stop: the last filter
\* applied, through adapt_to_market_conditions, blocks trading
C15_Witness ==
    /\ call.op = "allows_trading"
    /\ ret.value = FALSE
    /\ ~risk.emergency_stop
    /\ "allow_trading" \in DOMAIN applied_filter
    /\ ~applied_filter["allow_trading"]

\* C16: check_portfolio_risk changes no limit and no market-filter state, and
\* it changes emergency_stop only when the drawdown or the daily loss is at
\* its critical tier (20% of initial capital, 100% of the daily loss limit),
\* whatever per-position, concentration or volatility alerts it returns.
C16_StopOnlyAtCriticalTiers ==
    [][call'.op = "check_portfolio_risk"
         => LET loss  == LossAt(call'.args.portfolio_value)
                limit == FracMul(risk.max_daily_loss, Num(risk.initial_capital))
            IN  /\ [risk' EXCEPT !.emergency_stop = risk.emergency_stop] = risk
                /\ risk'.emergency_stop # risk.emergency_stop
                      => \/ FracLe(Frac(20, 100),
                                   FracDiv(loss, Num(risk.initial_capital)))
                         \/ FracLe(limit, loss)]_vars

\* a check at a loss of one dollar, with the default 2% limit and no position
\* held, returned the CRITICAL daily-loss alert and the emergency stop is set
C16_Witness ==
    /\ call.op = "check_portfolio_risk"
    /\ LossAt(call.args.portfolio_value) = Num(1)
    /\ call.args.positions = << >>
    /\ risk.max_daily_loss = MAX_DAILY_LOSS
    /\ ~ret.raised
    /\ Len(ret.value) = 1
    /\ ret.value[1].kind = "daily_loss"
    /\ ret.value[1].level = "CRITICAL"
    /\ risk.emergency_stop

\* the part of C16 that does not depend on where the tiers lie: the checks
\* change emergency_stop only together with a CRITICAL drawdown or daily-loss
\* alert, and change nothing else
C16_StopOnlyWithCriticalLossAlert ==
    [][call'.op = "check_portfolio_risk"
         => /\ [risk' EXCEPT !.emergency_stop = risk.emergency_stop] = risk
            /\ risk'.emergency_stop # risk.emergency_stop
                  => IF ret'.raised
                     THEN FracLt(Frac(20, 100),
                                 FracDiv(LossAt(call'.args.portfolio_value),
                                         Num(risk.initial_capital)))
                     ELSE \E i \in DOMAIN ret'.value :
                             /\ ret'.value[i].level = "CRITICAL"
                             /\ ret'.value[i].kind \in {"drawdown", "daily_loss"}]_vars

\* a check returned stop-loss, position-size, concentration and volatility
\* alerts, none from the two loss checks, and the emergency stop is not set
C16_AlertsWithoutStop ==
    /\ call.op = "check_portfolio_risk"
    /\ ~ret.raised
    /\ AlertsOf(ret.value, "stop_loss") # << >>
    /\ AlertsOf(ret.value, "position_size") # << >>
    /\ AlertsOf(ret.value, "concentration") # << >>
    /\ AlertsOf(ret.value, "volatility") # << >>
    /\ AlertsOf(ret.value, "drawdown") = << >>
    /\ AlertsOf(ret.value, "daily_loss") = << >>
    /\ ~risk.emergency_stop

\* the tier of a loss of loss_pct of initial capital when each tier starts at
\* its percentage, inclusive
ClaimedDrawdownTier(loss_pct) ==
    IF FracLe(Frac(20, 100), loss_pct) THEN "CRITICAL"
    ELSE IF FracLe(Frac(15, 100), loss_pct) THEN "HIGH"
    ELSE IF FracLe(Frac(10, 100), loss_pct) THEN "MEDIUM"
    ELSE "NONE"

\* C17: the drawdown check yields at most one alert, none below 10% loss of
\* initial capital, MEDIUM from 10%, HIGH from 15%, CRITICAL from 20%, and a
\* loss of 20% or more sets emergency_stop.
C17_DrawdownTiers ==
    [][call'.op = "_check_total_portfolio_risk"
         => LET loss_pct == FracDiv(LossAt(call'.args.portfolio_value),
                                    Num(risk.initial_capital))
                tier     == ClaimedDrawdownTier(loss_pct)
            IN  /\ Len(ret'.value) <= 1
                /\ (tier = "NONE") = (ret'.value = << >>)
                /\ tier # "NONE" => ret'.value[1].level = tier
                /\ tier = "CRITICAL" => risk'.emergency_stop]_vars

\* the drawdown check met a loss of exactly 20% of initial capital with a
\* HIGH alert and left the emergency stop unset
C17_Witness ==
    /\ call.op = "_check_total_portfolio_risk"
    /\ LossAt(call.args.portfolio_value) = Num(2000)
    /\ Len(ret.value) = 1
    /\ ret.value[1].level = "HIGH"
    /\ ~risk.emergency_stop

\* C18: with limit = max_daily_loss * capital, the daily-loss check raises a
\* CRITICAL alert and sets emergency_stop from 100% of the limit, a HIGH
\* alert from 80% of it, and below 80% raises nothing and leaves
\* emergency_stop as it was.
C18_DailyLossTiers ==
    [][call'.op = "_check_daily_loss_risk"
         => LET loss  == LossAt(call'.args.portfolio_value)
                limit == FracMul(risk.max_daily_loss, Num(risk.initial_capital))
            IN  IF FracLe(limit, loss)
                THEN /\ Len(ret'.value) = 1
                     /\ ret'.value[1].level = "CRITICAL"
                     /\ risk'.emergency_stop
                ELSE IF FracLe(FracMul(limit, Frac(8, 10)), loss)
                THEN /\ Len(ret'.value) = 1
                     /\ ret'.value[1].level = "HIGH"
                     /\ risk'.emergency_stop = risk.emergency_stop
                ELSE /\ ret'.value = << >>
                     /\ risk'.emergency_stop = risk.emergency_stop]_vars

\* a loss of one dollar, 0.01% of capital, with the default 2% limit raised
\* the CRITICAL daily-loss alert and set the emergency stop
C18_Witness ==
    /\ call.op = "_check_daily_loss_risk"
    /\ LossAt(call.args.portfolio_value) = Num(1)
    /\ risk.max_daily_loss = MAX_DAILY_LOSS
    /\ Len(ret.value) = 1
    /\ ret.value[1].level = "CRITICAL"
    /\ risk.emergency_stop

\* C19: after apply_market_filter with a filter, whatever its multiplier,
\* MIN_POSITION_SIZE <= max_position_size <= base_max_position_size and
\* market_blocked is true exactly when the filter's allow_trading is false.
C19_PositionSizeWithinLimits ==
    [][(call'.op = "apply_market_filter" /\ Truthy(call'.args.filter_signal))
         => /\ FracLe(MIN_POSITION_SIZE, risk'.max_position_size)
            /\ FracLe(risk'.max_position_size, risk'.base_max_position_size)
            /\ risk'.market_blocked
                  = ~get(call'.args.filter_signal, "allow_trading", TRUE)]_vars

\* a blocking filter with a negative multiplier left the size at the floor
C19_Witness ==
    /\ call.op = "apply_market_filter"
    /\ "position_size_multiplier" \in DOMAIN call.args.filter_signal
    /\ FracLt(call.args.filter_signal["position_size_multiplier"], Num(0))
    /\ risk.max_position_size = MIN_POSITION_SIZE
    /\ risk.market_blocked

\* C20: after apply_market_filter with a filter, whatever its multiplier,
\* half the base <= max_daily_loss <= base_max_daily_loss.
C20_DailyLossWithinLimits ==
    [][(call'.op = "apply_market_filter" /\ Truthy(call'.args.filter_signal))
         => /\ FracLe(FracMul(risk'.base_max_daily_loss, Frac(1, 2)),
                      risk'.max_daily_loss)
            /\ FracLe(risk'.max_daily_loss, risk'.base_max_daily_loss)]_vars

\* a filter with multiplier 1.2 left max_daily_loss above its base
C20_Witness ==
    /\ call.op = "apply_market_filter"
    /\ "position_size_multiplier" \in DOMAIN call.args.filter_signal
    /\ call.args.filter_signal["position_size_multiplier"] = Frac(6, 5)
    /\ FracLt(risk.base_max_daily_loss, risk.max_daily_loss)


\* the multipliers of base max position size, stop-loss and take-profit for a
\* macro class
MacroTable(env) ==
    IF env = "VERY_UNFAVORABLE"
    THEN [position |-> Frac(3, 10), stop_loss |-> Frac(7, 10), take_profit |-> Num(1)]
    ELSE IF env = "UNFAVORABLE"
    THEN [position |-> Frac(1, 2), stop_loss |-> Frac(85, 100), take_profit |-> Num(1)]
    ELSE IF env = "FAVORABLE"
    THEN [position |-> Frac(11, 10), stop_loss |-> Num(1), take_profit |-> Frac(6, 5)]
    ELSE IF env = "VERY_FAVORABLE"
    THEN [position |-> Frac(13, 10), stop_loss |-> Num(1), take_profit |-> Frac(3, 2)]
    ELSE [position |-> Num(1), stop_loss |-> Num(1), take_profit |-> Num(1)]

\* C21: after adapt_to_market_conditions(filter, macro) with a filter that
\* allows trading, max position size, stop-loss and take-profit equal the
\* base value times the multiplier of the macro class, max position size
\* times the filter multiplier too: they depend on the base limits and the
\* arguments of this call only.
C21_MacroTableApplied ==
    [][(/\ call'.op = "adapt_to_market_conditions"
        /\ Truthy(call'.args.market_filter)
        /\ get(call'.args.market_filter, "allow_trading", TRUE)
        /\ Truthy(call'.args.macro_env))
         => LET row == MacroTable(get(call'.args.macro_env, "environment", "NEUTRAL"))
                filter_multiplier ==
                    get(call'.args.market_filter, "position_size_multiplier", Num(1))
            IN  /\ risk'.max_position_size
                     = FracMul(FracMul(risk.base_max_position_size, row.position),
                               filter_multiplier)
                /\ risk'.stop_loss_pct
                     = FracMul(risk.base_stop_loss_pct, row.stop_loss)
                /\ risk'.take_profit_pct
                     = FracMul(risk.base_take_profit_pct, row.take_profit)]_vars

\* after a call for the very unfavorable class the take-profit is still the
\* one of the very favorable class, applied by an earlier call
C21_Witness ==
    /\ call.op = "adapt_to_market_conditions"
    /\ get(call.args.market_filter, "allow_trading", FALSE)
    /\ get(call.args.macro_env, "environment", "") = "VERY_UNFAVORABLE"
    /\ risk.stop_loss_pct = FracMul(risk.base_stop_loss_pct, Frac(7, 10))
    /\ risk.take_profit_pct = FracMul(risk.base_take_profit_pct, Frac(3, 2))


(***************************************************************************)
(* Properties of the simulation loops.                                     *)
(***************************************************************************)
\* price_change <= -STOP_LOSS_PCT or price_change >= TAKE_PROFIT_PCT, with
\* price_change = (current_price - avg_price) / avg_price
HitsStopOrTarget(avg_price, current_price) ==
    LET price_change == FracDiv(FracSub(Num(current_price), avg_price), avg_price)
    IN  \/ FracLe(price_change, FracSub(Num(0), STOP_LOSS_PCT))
        \/ FracLe(TAKE_PROFIT_PCT, price_change)

\* the average cost of the position a SELL closed, from its pnl
CostOfSold(trade) ==
    FracSub(Num(trade.price),
            FracDiv(FracAdd(trade.pnl, Num(trade.commission)), Num(trade.quantity)))

\* the engine's run_backtest has returned or raised
EngineEnded == run.engine # "running"

TradesUpTo(day) == SelectSeq(trades, LAMBDA t : t.timestamp.day <= day)

\* C23: the loop appends exactly one snapshot per simulated date, after the
\* date's executions: after a run over n dates the snapshot log has n entries
\* in date order and each counts every trade executed up to its date.
C23_OneSnapshotPerDate ==
    EngineEnded =>
      LET common == _get_common_dates(run.data)
      IN  /\ Len(daily_values) = Len(common)
          /\ \A i \in DOMAIN daily_values :
                /\ daily_values[i].date = common[i]
                /\ daily_values[i].num_trades = Len(TradesUpTo(common[i]))
          /\ daily_values # << >> =>
                /\ daily_values[Len(daily_values)].cash = cash
                /\ daily_values[Len(daily_values)].num_positions
                     = Cardinality(DOMAIN positions)

\* the run has ended with a trade in the log and no snapshot
C23_Witness ==
    /\ EngineEnded
    /\ trades # << >>
    /\ daily_values = << >>
    /\ portfolio_history = << >>

C27_CryptoBuyBeforeSell ==
    call.op = "crypto.get_signal" /\ call.args.data.len >= 50
       => /\ FracLe(Frac(5, 2), ret.value.buy_score) => ret.value.signal = "BUY"
          /\ ret.value.signal = "SELL"
                => /\ ~FracLe(Frac(5, 2), ret.value.buy_score)
                   /\ FracLe(Num(2), ret.value.sell_score)

\* the crypto strategy asked about a bar that meets both thresholds
C27_CryptoWitness ==
    /\ call.op = "crypto.get_signal"
    /\ call.args.data.len >= 50
    /\ call.args.data.latest.BUY_SCORE = Num(3)
    /\ call.args.data.latest.SELL_SCORE = Num(3)
    /\ ret.value.signal = "BUY"

\* the filter get_signal works with: the one handed in, else the analyzer's
EffectiveFilter(args) ==
    IF ~IsNone(args.market_filter) THEN args.market_filter
    ELSE IF args.context.analyzer.raised THEN [allow_trading |-> TRUE]
    ELSE args.context.analyzer.value

\* C26: while the market filter has allow_trading = false, the signal for
\* every instrument is HOLD whatever the classifier says, and a turn of the
\* trading loop executes and records no trade of any kind.
C26_NoTradeWhileBlocked ==
    [][/\ call'.op = "get_trading_signal"
             /\ ~get(EffectiveFilter(call'.args), "allow_trading", TRUE)
          => ~ret'.raised /\ ret'.value.signal = "HOLD"
       /\ call'.op = "_trading_loop"
             /\ ~call'.args.analyzer.raised
             /\ ~call'.args.analyzer.value.allow_trading
          => trader'.portfolio_manager.trades = trader.portfolio_manager.trades
      ]_vars

\* a turn under a blocking filter, with no new data, after which the ledger
\* holds the sale at 96 of the shares bought at 100 and the position is gone
C26_Witness ==
    /\ call.op = "_trading_loop"
    /\ ~call.args.analyzer.raised
    /\ ~call.args.analyzer.value.allow_trading
    /\ call.args.latest["AAPL"].len = 0
    /\ Len(trader.portfolio_manager.trades) = 2
    /\ trader.portfolio_manager.trades[1].order_type = "BUY"
    /\ trader.portfolio_manager.trades[1].price = 100
    /\ trader.portfolio_manager.trades[2].order_type = "SELL"
    /\ trader.portfolio_manager.trades[2].price = 96
    /\ trader.portfolio_manager.trades[2].timestamp.day = trader.now
    /\ trader.portfolio_manager.positions = << >>
    /\ trader.daily_trade_count = 1

\* C26, the part that holds: with allow_trading = false the strategy answers
\* HOLD for every row and classifier output.
C26_SignalHoldWhileBlocked ==
    call.op = "get_trading_signal"
       /\ ~get(EffectiveFilter(call.args), "allow_trading", TRUE)
       => ~ret.raised /\ ret.value.signal = "HOLD"

\* a trained strategy asked under a blocking filter about a row its
\* classifier labels BUY
C26_SignalWitness ==
    /\ call.op = "get_trading_signal"
    /\ trader.improved_strategy.is_trained
    /\ call.args.data.len > 0
    /\ call.args.data.latest.PREDICTION = 2
    /\ ~IsNone(call.args.market_filter)
    /\ ~get(call.args.market_filter, "allow_trading", TRUE)
    /\ ret.value.signal = "HOLD"
    /\ ret.value.reason = "market filter"

\* C28: for an instrument bought through the trading loop and still held,
\* every signal requested before the minimum holding period of 3 days has
\* elapsed since the entry is HOLD, whatever the classifier says.
C28_HoldDuringMinimumHolding ==
    call.op = "get_trading_signal"
       /\ call.args.data.len > 0
       /\ call.args.symbol \in DOMAIN trader.portfolio_manager.positions
       /\ call.args.symbol \in DOMAIN trader.position_manager.positions
       /\ call.args.data.latest.Date
             - trader.position_manager.positions[call.args.symbol].entry_date
          < ImprovedBuyLowSellHighStrategy.min_holding_days
       => ~ret.raised /\ ret.value.signal = "HOLD"

\* AAPL was bought by the loop on day 1 and is held; asked on the same day
\* about a row the classifier labels SELL, the strategy, whose own positions
\* are still empty, answers SELL
C28_Witness ==
    /\ call.op = "get_trading_signal"
    /\ call.args.data.len > 0
    /\ call.args.data.latest.Date = 1
    /\ call.args.data.latest.PREDICTION = 0
    /\ Len(trader.portfolio_manager.trades) = 1
    /\ trader.portfolio_manager.trades[1].order_type = "BUY"
    /\ trader.portfolio_manager.trades[1].timestamp.day = 1
    /\ "AAPL" \in DOMAIN trader.portfolio_manager.positions
    /\ trader.position_manager.positions["AAPL"].entry_date = 1
    /\ trader.improved_strategy.positions = << >>
    /\ ~ret.raised
    /\ ret.value.signal = "SELL"

\* one of the three adjustment factors get_signal multiplied the size by is 0
SomeFactorZero(args) ==
    \/ args.market_filter.position_size_multiplier = Num(0)
    \/ args.context.sector_info.weight_adjustment = Num(0)
    \/ args.context.macro_env.position_multiplier = Num(0)

\* C29: the quantity the sizing path produces is a non-negative whole number,
\* and it is zero only when the market-filter multiplier, the sector weight
\* adjustment or the macro position multiplier is itself zero.
C29_ZeroOnlyByZeroFactor ==
    call.op = "get_signal" /\ ~ret.raised
       => /\ "position_size" \in DOMAIN ret.value
                => /\ ret.value.position_size >= 0
                   /\ ret.value.position_size = 0 => SomeFactorZero(call.args)
          /\ logged = "hold_position_size" => SomeFactorZero(call.args)

\* capital 10000, price 500, the row labelled BUY: one share is sized, the
\* filter's 0.5 with sector and macro at 1.0 truncates it to 0 and the BUY
\* comes back as HOLD
C29_Witness ==
    /\ call.op = "get_signal"
    /\ call.args.capital = INITIAL_CAPITAL
    /\ call.args.data.latest.CLOSE = 500
    /\ call.args.data.latest.PREDICTION = 2
    /\ call.args.market_filter.position_size_multiplier = Frac(1, 2)
    /\ call.args.context.sector_info.weight_adjustment = Num(1)
    /\ call.args.context.macro_env.position_multiplier = Num(1)
    /\ ~ret.raised
    /\ ret.value.signal = "HOLD"
    /\ ret.value.reason = "Market filter reduced position size to zero"

\* the quantity a sizing call handed back
SizedQuantity ==
    IF call.op = "position_manager.calculate_position_size"
    THEN ret.value[1] ELSE ret.value

\* C30: for every capital, price, volatility and confidence the value of the
\* sized position, quantity times price, does not exceed 20% of the capital.
C30_WithinMaxPositionFraction ==
    call.op \in {"improved.calculate_position_size",
                 "position_manager.calculate_position_size",
                 "risk.calculate_position_size"}
       /\ ~ret.raised
       => FracLe(Num(SizedQuantity * call.args.price),
                 FracMul(Num(call.args.capital), MAX_POSITION_SIZE))

\* capital 10000 and price 2500: the strategy sizes one share, worth 2500,
\* above the 2000 that 20% of the capital allows
C30_Witness ==
    /\ call.op = "improved.calculate_position_size"
    /\ call.args.capital = INITIAL_CAPITAL
    /\ call.args.price = 2500
    /\ call.args.volatility = Frac(2, 100)
    /\ ret.value = 1

\* the quantity PositionManager.calculate_position_size gives the inputs of
\* the call with this volatility and signal strength in place of its own
ResizedByPositionManager(volatility, signal_strength) ==
    position_manager_calculate_position_size(
        PositionManager([initial_capital |-> call.args.capital]).self, "AAPL",
        call.args.price, call.args.stop_loss_pct, volatility,
        signal_strength).value[1]

\* the quantity the strategy's calculate_position_size gives the inputs of
\* the call with this volatility in place of its own
ResizedByStrategy(volatility) ==
    improved_calculate_position_size(TrainedStrategy, call.args.capital,
                                     call.args.price, volatility)

\* C31: for fixed capital, price, stop-loss percentage and adjustment
\* factors, the sized quantity is non-increasing in volatility and
\* non-decreasing in signal confidence.
C31_SizingMonotone ==
    /\ call.op = "position_manager.calculate_position_size" /\ ~ret.raised
          => \A volatility \in SizingVolatilities \ {NaN}, signal_strength \in Confidences :
                 /\ FracLe(call.args.volatility, volatility)
                        => ResizedByPositionManager(volatility, call.args.signal_strength)
                               <= ret.value[1]
                 /\ FracLe(call.args.signal_strength, signal_strength)
                        => ret.value[1]
                               <= ResizedByPositionManager(call.args.volatility, signal_strength)
    /\ call.op = "improved.calculate_position_size" /\ ~isna(call.args.volatility)
          => \A volatility \in SizingVolatilities \ {NaN} :
                 FracLe(call.args.volatility, volatility)
                     => ResizedByStrategy(volatility) <= ret.value

\* capital 10000 at price 10, volatility 0.02 and full signal strength: 8
\* shares, where volatility 0.1 gives 5 and signal strength 0.5 gives 6
C31_Witness ==
    /\ call.op = "position_manager.calculate_position_size"
    /\ call.args.capital = INITIAL_CAPITAL
    /\ call.args.price = 10
    /\ call.args.volatility = Frac(2, 100)
    /\ call.args.signal_strength = Num(1)
    /\ ret.value[1] = 8
    /\ ResizedByPositionManager(Frac(1, 10), Num(1)) = 5
    /\ ResizedByPositionManager(Frac(2, 100), Frac(1, 2)) = 6

\* the trading thread of the polling trader is between its start and its end
TradingThreadRuns == polling.trading_thread.pc \in {"while", "for"}

\* the main thread stands inside _sync_portfolio, after reset() and before
\* the last position is put back
SyncUnderWay == polling.main_thread.pc \in {"cash", "positions"}

\* C32: in the polling trader the ledger has a single writer: while the
\* trading thread runs, a step of the monitoring loop writes nothing to the
\* PortfolioManager, and the trading thread never reads a ledger that a
\* reset has cleared and the synchronisation has not yet filled again.
C32_SingleWriter ==
    [][/\ TradingThreadRuns
             /\ call'.op \in {"_monitoring_loop.while", "_sync_portfolio"}
          => polling'.self.portfolio_manager = polling.self.portfolio_manager
       /\ call'.op \in {"_trading_loop.while", "_trading_loop.for"}
             /\ ret'.value \in {"emergency_stop", "cycle", "processed"}
          => ~SyncUnderWay]_vars

\* the broker holds a position, the monitoring loop has reset the ledger
\* and not yet put the position back, and the trading thread has handled a
\* symbol on the emptied ledger
C32_Witness ==
    /\ call.op = "_trading_loop.for"
    /\ ret.value = "processed"
    /\ SyncUnderWay
    /\ polling.api.positions # << >>
    /\ polling.self.portfolio_manager.positions = << >>

\* what the trader of run i observes: its own attributes and, once it is
\* made, the positions the position manager and the strategy track for it
Observed(own, shared) ==
    IF IsNone(own) THEN <<own>>
    ELSE <<own, shared.position_manager, shared.improved_strategy.positions>>

\* C33: two independently constructed runs share no mutable state:
\* constructing a run or performing operations on it never changes the
\* ledger, position-manager or strategy position tracking that another run
\* observes.
C33_RunsShareNothing ==
    [][\A i \in RunIds :
          call'.op \in {"PaperTrader", "_trading_loop"} /\ call'.args.run # i
              => Observed(traders'[i], modules') = Observed(traders[i], modules)]_vars

\* run 1 has bought AAPL and holds it in its ledger; run 2 has been made
\* since and the position manager tracks nothing any more
C33_Witness ==
    /\ call.op = "PaperTrader"
    /\ call.args.run = 2
    /\ ~IsNone(traders[1])
    /\ "AAPL" \in DOMAIN traders[1].portfolio_manager.positions
    /\ modules.position_manager.positions = << >>

\* the step is a turn of the for statement of the polling trader's loop
TurnOfFor == call'.op = "_trading_loop.for"

\* the flags let the polling trader go on
MayGoOn == polling.self.is_running /\ ~polling.self.emergency_stop

\* C34 as stated: the loop reads its stop flag only at cycle boundaries;
\* once a cycle over the symbol list has started, every symbol of that
\* cycle is processed before the loop can end.
C34_StopOnlyAtCycleBoundary ==
    [][TurnOfFor => ret'.value = "processed"]_vars

\* C34 amended: the loop reads its stop flag at the cycle boundary and
\* again before every symbol of the cycle.  A symbol is handled exactly
\* when the flags still let the trader go on at its turn; otherwise the
\* rest of the cycle is skipped without an order, and the test at the
\* cycle boundary that follows ends the loop.
C34_StopBeforeEachSymbol ==
    [][/\ TurnOfFor => (ret'.value = "processed" <=> MayGoOn)
       /\ TurnOfFor /\ ~MayGoOn
             => /\ polling'.trading_thread.pc = "while"
                /\ polling'.orders = polling.orders
                /\ polling'.self = polling.self
       /\ call'.op = "_trading_loop.while" /\ ~MayGoOn
             => polling'.trading_thread.pc = "ended"]_vars

\* stop_trading came after AAPL was handled: the turn of MSFT found the
\* flag cleared and left the cycle
C34_Witness ==
    /\ call.op = "_trading_loop.for"
    /\ call.args.symbol = "MSFT"
    /\ ret.value = "break"
    /\ ~polling.self.is_running
    /\ polling.trading_thread.pc = "while"

(***************************************************************************)
(* run_backtest of scripts/backtest_stocks.py on two data sets: the lines  *)
(* that prepare the frame, train the classifier and ask the strategy for   *)
(* the signal of every date.  One symbol; of the columns of a prepared     *)
(* frame CLOSE, SIGNAL_CONFIDENCE and what _create_target_variables adds   *)
(* are kept, the indicator columns being rolling windows over earlier      *)
(* rows.                                                                   *)
(***************************************************************************)
ScriptBars   == 6       \* rows of the downloaded frame
TrainAbove   == 5       \* the training wants more rows than this (100 in the script)
ScriptCloses == {4, 5}  \* 25% up and 20% down from one to the other

\* df['CLOSE'].pct_change(periods=period).shift(-period) at row i
FUTURE_RETURN(closes, i, period) ==
    IF i + period > Len(closes) THEN NaN
    ELSE Frac(closes[i + period] - closes[i], closes[i])

\* the row i of the frame improved_strategy.prepare_data makes of the closes
PreparedRow(closes, i, r1, r3, r5, r10) ==
    LET target_buy  == IF ~isna(r5) /\ FracLt(Frac(5, 100), r5) THEN 1 ELSE 0
        target_sell == IF ~isna(r3) /\ FracLt(r3, Frac(0 - 3, 100)) THEN 1 ELSE 0
    IN  [Date |-> i, CLOSE |-> closes[i], SIGNAL_CONFIDENCE |-> Frac(7, 10),
         FUTURE_RETURN_1D |-> r1, FUTURE_RETURN_3D |-> r3,
         FUTURE_RETURN_5D |-> r5, FUTURE_RETURN_10D |-> r10,
         TARGET_BUY |-> target_buy, TARGET_SELL |-> target_sell,
         TARGET_MULTI |-> IF target_sell = 1 THEN 0
                          ELSE IF target_buy = 1 THEN 2 ELSE 1]

\* ImprovedBuyLowSellHighStrategy._create_target_variables
improved_create_target_variables(closes) ==
    [i \in 1..Len(closes) |->
        PreparedRow(closes, i, FUTURE_RETURN(closes, i, 1),
                    FUTURE_RETURN(closes, i, 3), FUTURE_RETURN(closes, i, 5),
                    FUTURE_RETURN(closes, i, 10))]

\* df.select_dtypes(include=[np.number]).columns without the target column
NumericColumns ==
    {"CLOSE", "SIGNAL_CONFIDENCE", "FUTURE_RETURN_1D", "FUTURE_RETURN_3D",
     "FUTURE_RETURN_5D", "FUTURE_RETURN_10D", "TARGET_BUY", "TARGET_SELL"}
\* the cell of a row as a fraction
Cell(row, column) ==
    IF column \in {"CLOSE", "TARGET_BUY", "TARGET_SELL", "TARGET_MULTI"}
    THEN Num(row[column]) ELSE row[column]

RECURSIVE FracSum(_)
FracSum(xs) ==
    IF xs = << >> THEN Num(0) ELSE FracAdd(Head(xs), FracSum(Tail(xs)))

\* abs(correlation) >= min_importance of n pairs with the given sums; the
\* correlation of a constant column or of a single pair is NaN
Important(n, sx, sy, sxx, syy, sxy, min_importance) ==
    LET cov   == FracSub(FracMul(Num(n), sxy), FracMul(sx, sy))
        var_x == FracSub(FracMul(Num(n), sxx), FracMul(sx, sx))
        var_y == FracSub(FracMul(Num(n), syy), FracMul(sy, sy))
    IN  /\ n >= 2
        /\ FracPos(var_x)
        /\ FracPos(var_y)
        /\ FracLe(FracMul(min_importance, min_importance),
                  FracDiv(FracMul(cov, cov), FracMul(var_x, var_y)))

Products(xs, ys) == [i \in 1..Len(xs) |-> FracMul(xs[i], ys[i])]
ImportantColumn(xs, ys, min_importance) ==
    Important(Len(xs), FracSum(xs), FracSum(ys), FracSum(Products(xs, xs)),
              FracSum(Products(ys, ys)), FracSum(Products(xs, ys)),
              min_importance)
ColumnOf(rows, column) == [i \in 1..Len(rows) |-> Cell(rows[i], column)]
Complete(df, column) == SelectSeq(df, LAMBDA row : ~isna(Cell(row, column)))

\* FeatureEngineer.select_features: the numeric columns whose correlation
\* with the target is at least min_importance (fewer than max_features here)
select_features(df, target_column) ==
    {column \in NumericColumns :
        ImportantColumn(ColumnOf(Complete(df, column), column),
                        ColumnOf(Complete(df, column), target_column),
                        Frac(1, 100))}

\* what the fitted classifier may be: one class for every row, or a split
\* of one of its feature columns at 0
Fitted(feature_columns) ==
    {[column |-> "", le |-> c, gt |-> c] : c \in {0, 1, 2}}
    \cup {[column |-> column, le |-> le, gt |-> gt] :
            column \in feature_columns, le \in {0, 1, 2}, gt \in {0, 1, 2}}

\* ImprovedBuyLowSellHighStrategy.train_model with the classifier the fit
\* gives
train_model(self, data, target_column, fitted) ==
    With(self, [feature_columns |-> select_features(data, target_column),
                model |-> fitted, is_trained |-> TRUE])

\* self.model.predict(X) for X = row[self.feature_columns].fillna(0)
model_predict(self, row) ==
    IF self.model.column = "" THEN self.model.le
    ELSE LET x == IF isna(Cell(row, self.model.column)) THEN Num(0)
                  ELSE Cell(row, self.model.column)
         IN  IF FracLe(x, Num(0)) THEN self.model.le ELSE self.model.gt

\* one symbol's turn of the date loop: the rows up to current_date of the
\* prepared frame go to get_signal
ScriptGetSignalOf(self, data, current_date) ==
    LET data_until_date == SelectSeq(data, LAMBDA row : row.Date <= current_date)
        latest == data_until_date[Len(data_until_date)]
    IN  get_signal(self,
                   DataFrame(Len(data_until_date),
                             IF self.is_trained
                             THEN With(latest, [PREDICTION |-> model_predict(self, latest)])
                             ELSE latest),
                   "AAPL", INITIAL_CAPITAL, None, RunContext)

\* the closes a with the bars after day k changed
ChangedAfter(a, k) ==
    [i \in 1..Len(a) |-> IF i <= k THEN a[i] ELSE 9 - a[i]]
\* two downloads that differ from some bar on
Downloads ==
    {<<a, ChangedAfter(a, k)>> :
        a \in [1..ScriptBars -> ScriptCloses], k \in 1..(ScriptBars - 1)}

InitLookAhead ==
    /\ initial_capital   = Capital
    /\ cash              = Capital
    /\ positions         = << >>
    /\ trades            = << >>
    /\ daily_values      = << >>
    /\ portfolio_history = << >>
    /\ total_commission  = 0
    /\ total_trades      = 0
    /\ winning_trades    = 0
    /\ losing_trades     = 0
    /\ backtester        = StockBacktester(Capital)
    /\ risk              = RiskManager(INITIAL_CAPITAL)
    /\ applied_filter    = RiskManager(INITIAL_CAPITAL).market_filter_state
    /\ run               \in {[step |-> "collected", closes |-> closes,
                               data |-> << >>, strategy |-> << >>,
                               signals |-> << >>] : closes \in Downloads}
    /\ trader            = PaperTrader(<< >>, << >>, FALSE)
    /\ polling           = Polling(FALSE, INITIAL_CAPITAL)
    /\ modules           = Modules
    /\ wall_clock        = 0
    /\ traders           = << >>
    /\ call              = [op |-> "download_stock_data", args |-> << >>]
    /\ ret               = [raised |-> FALSE, value |-> "None"]
    /\ logged            = ""

ScriptBecomes(op, args, value) ==
    /\ call' = [op |-> op, args |-> args]
    /\ ret' = [raised |-> FALSE, value |-> value]
    /\ logged' = ""
    /\ UNCHANGED <<ledger, backtester, risk, applied_filter, trader, live>>

\* stock_data = improved_strategy.prepare_data(stock_data), in both runs
ScriptPrepareData ==
    /\ run.step = "collected"
    /\ run' = [run EXCEPT !.step = "prepared",
                          !.data = [i \in 1..2 |->
                                      improved_create_target_variables(run.closes[i])]]
    /\ ScriptBecomes("prepare_data", << >>, "None")

\* the rows dropna(subset=['TARGET_MULTI']) keeps
dropna(df, column) == SelectSeq(df, LAMBDA row : ~isna(Cell(row, column)))

\* what the two runs' strategies are after the training step with the
\* classifier fitted
ScriptTrained(combined_data, fitted) ==
    [i \in 1..2 |->
        IF Len(combined_data[i]) > TrainAbove
        THEN train_model(ImprovedBuyLowSellHighStrategy, combined_data[i],
                         "TARGET_MULTI", fitted)
        ELSE ImprovedBuyLowSellHighStrategy]

\* if len(combined_data) > 100: improved_strategy.train_model(combined_data).
\* Both runs get the same classifier, over columns both selected.
ScriptTrainModel ==
    /\ run.step = "prepared"
    /\ \E fitted \in Fitted(select_features(run.data[1], "TARGET_MULTI")
                              \cap select_features(run.data[2], "TARGET_MULTI")) :
          /\ run' = [run EXCEPT !.step = "trained",
                                !.strategy = ScriptTrained(
                                    [i \in 1..2 |-> dropna(run.data[i], "TARGET_MULTI")],
                                    fitted)]
          /\ ScriptBecomes("train_model", [fitted |-> fitted], "None")

\* the signals of the two runs for the date
ScriptSignals(current_date) ==
    [i \in 1..2 |-> ScriptGetSignalOf(run.strategy[i], run.data[i], current_date)]
Signal(r) == IF r.raised THEN "raised" ELSE r.value.signal

\* one turn of "for current_date in all_dates" up to the signal
ScriptGetSignal ==
    /\ run.step = "trained"
    /\ Len(run.signals) < ScriptBars
    /\ run' = [run EXCEPT !.signals =
                  Append(@, [i \in 1..2 |-> Signal(ScriptSignals(Len(run.signals) + 1)[i])])]
    /\ ScriptBecomes("get_signal", [current_date |-> Len(run.signals) + 1],
                     "signal")

NextLookAhead ==
    \/ ScriptPrepareData
    \/ ScriptTrainModel
    \/ ScriptGetSignal

SpecLookAhead == InitLookAhead /\ [][NextLookAhead]_vars

\* the two runs saw the same bars up to and including date d
AgreeUpTo(d) == \A i \in 1..d : run.closes[1][i] = run.closes[2][i]

LimitDays   == 8        \* the clock reaches the days 0..LimitDays
MaxOpens    == 3        \* open_position is called with fewer openings than this
ExitPrices  == {80, 110}

InitLimits ==
    /\ initial_capital   = Capital
    /\ cash              = Capital
    /\ positions         = << >>
    /\ trades            = << >>
    /\ daily_values      = << >>
    /\ portfolio_history = << >>
    /\ total_commission  = 0
    /\ total_trades      = 0
    /\ winning_trades    = 0
    /\ losing_trades     = 0
    /\ backtester        = StockBacktester(Capital)
    /\ risk              = RiskManager(INITIAL_CAPITAL)
    /\ applied_filter    = RiskManager(INITIAL_CAPITAL).market_filter_state
    /\ run               = [realized |-> 0, opened |-> 0]
    /\ trader            = PaperTrader(<< >>, << >>, FALSE)
    /\ polling           = Polling(FALSE, INITIAL_CAPITAL)
    /\ modules           = Modules
    /\ wall_clock        = 0
    /\ traders           = << >>
    /\ call              = [op |-> "import", args |-> << >>]
    /\ ret               = [raised |-> FALSE, value |-> "None"]
    /\ logged            = ""

\* the state after the call op(args) on position_manager that handed back r
LimitsBecomes(op, args, r, realized, opened) ==
    /\ modules' = [modules EXCEPT !.position_manager = r.self]
    /\ run' = [realized |-> realized, opened |-> opened]
    /\ call' = [op |-> op, args |-> args]
    /\ ret' = [raised |-> r.raised, value |-> r.value]
    /\ logged' = r.line
    /\ UNCHANGED <<ledger, backtester, risk, applied_filter, trader, polling,
                   wall_clock, traders>>

CanOpenPosition ==
    /\ \E symbol \in Symbols :
          LimitsBecomes("can_open_position", [symbol |-> symbol],
                        can_open_position(modules.position_manager, symbol,
                                          wall_clock),
                        run.realized, run.opened)

OpenPosition ==
    /\ run.opened < MaxOpens
    /\ \E symbol \in Symbols :
          LimitsBecomes("open_position", [symbol |-> symbol],
                        open_position(modules.position_manager, symbol, 10, 100,
                                      Num(97), Num(105), Num(1), wall_clock),
                        run.realized, run.opened + 1)

\* what close_position realized: the pnl of the record it hands back
Realized(self, symbol, price) ==
    IF symbol \in DOMAIN self.positions
    THEN (price - self.positions[symbol].entry_price) * self.positions[symbol].shares
    ELSE 0

ClosePosition ==
    /\ \E symbol \in Symbols, price \in ExitPrices :
          LimitsBecomes("close_position", [symbol |-> symbol, price |-> price],
                        close_position(modules.position_manager, symbol, price,
                                       "Manual", wall_clock),
                        run.realized + Realized(modules.position_manager,
                                                symbol, price),
                        run.opened)

\* PositionManager.reset_daily_stats
reset_daily_stats(self) == Returned([self EXCEPT !.daily_pnl = 0], "None", "")

ResetDailyStats ==
    /\ LimitsBecomes("reset_daily_stats", << >>,
                     reset_daily_stats(modules.position_manager), 0, run.opened)

\* midnight
LimitsNextDay ==
    /\ wall_clock < LimitDays
    /\ wall_clock' = wall_clock + 1
    /\ run' = [run EXCEPT !.realized = 0]
    /\ call' = [op |-> "date.today", args |-> << >>]
    /\ ret' = [raised |-> FALSE, value |-> wall_clock + 1]
    /\ logged' = ""
    /\ UNCHANGED <<ledger, backtester, risk, applied_filter, trader, polling,
                   modules, traders>>

NextLimits ==
    \/ CanOpenPosition
    \/ OpenPosition
    \/ ClosePosition
    \/ ResetDailyStats
    \/ LimitsNextDay

SpecLimits == InitLimits /\ [][NextLimits]_vars

\* -max_daily_loss * initial_capital
DailyLossFloor(self) ==
    FracMul(FracSub(Num(0), self.max_daily_loss), Num(self.initial_capital))
\* the day's close_position calls have brought daily_pnl to the limit or
\* below it, and no reset_daily_stats came since
DailyLossReached ==
    /\ FracLe(Num(run.realized), DailyLossFloor(modules.position_manager))
    /\ FracLe(Num(modules.position_manager.daily_pnl),
              DailyLossFloor(modules.position_manager))

\* C36: the daily loss limit is sticky within a day: once the realized
\* losses of close_position have brought daily_pnl to or below
\* -max_daily_loss * initial_capital, every later can_open_position of the
\* same day says no and open_position adds no position, on whichever day of
\* the run this happens.
C36_DailyLossSticky ==
    [][/\ DailyLossReached /\ call'.op = "can_open_position"
            => ret'.value[1] = FALSE
       /\ DailyLossReached /\ call'.op = "open_position"
            => /\ ret'.value = FALSE
               /\ modules'.position_manager.positions
                    = modules.position_manager.positions]_vars

\* the day after the import a position was closed with a loss of 200 and
\* the can_open_position of the same day said OK
C36_Witness ==
    /\ wall_clock = 1
    /\ run.realized = 0 - 200
    /\ call.op = "can_open_position"
    /\ ret.value = <<TRUE, "OK">>
    /\ modules.position_manager.daily_pnl = 0

\* the symbols held in the ledger are the symbols the position manager tracks
Covered(portfolio_manager, position_manager_) ==
    DOMAIN portfolio_manager.positions = DOMAIN position_manager_.positions

\* C37: in the local simulator, after every completed trading cycle the set
\* of symbols with a position in the ledger equals the set of symbols the
\* PositionManager tracks, so the stop-loss/take-profit check covers every
\* ledger position.
C37_LedgerCovered ==
    [][call'.op = "_trading_loop" /\ ~ret'.raised
          => Covered(traders'[call'.args.run].portfolio_manager,
                     modules'.position_manager)]_vars

\* run 1 has completed a cycle after run 2 was made: it holds AAPL in its
\* ledger and the position manager tracks nothing
C37_Witness ==
    /\ call.op = "_trading_loop"
    /\ call.args.run = 1
    /\ ~ret.raised
    /\ ~IsNone(traders[2])
    /\ "AAPL" \in DOMAIN traders[1].portfolio_manager.positions
    /\ modules.position_manager.positions = << >>

\* a trader that is the only one of its process keeps the two in step
C37_OneTraderCovered ==
    [][call'.op = "_trading_loop" /\ ~ret'.raised
          => Covered(trader'.portfolio_manager, trader'.position_manager)]_vars

\* INITIAL_CAPITAL minus the value of the portfolio is above the daily loss
\* limit
DailyLossExceeded ==
    FracLt(polling.self.daily_loss_limit,
           Num(INITIAL_CAPITAL
               - get_portfolio_value(polling.self.portfolio_manager,
                                     polling.self.current_prices).value))

\* the step is the part of the trading loop from its while statement on,
\* and it came as far as the daily loss check
LossCheckReached ==
    /\ call'.op = "_trading_loop.while"
    /\ ret'.value \in {"emergency_stop", "cycle"}

\* C38: in the polling trader, once the daily loss check fails
\* emergency_stop becomes true and is never cleared for the life of the
\* instance: the trading loop exits without submitting any further order,
\* and a later start_trading() returns without starting a worker.
C38_EmergencyStopSticks ==
    [][/\ LossCheckReached /\ DailyLossExceeded
            => /\ polling'.self.emergency_stop
               /\ polling'.trading_thread.pc = "ended"
       /\ polling.self.emergency_stop
            => /\ polling'.self.emergency_stop
               /\ polling'.orders = polling.orders
               /\ polling'.api = polling.api
       /\ polling.self.emergency_stop /\ call'.op = "start_trading"
            => /\ ret'.value = "refused"
               /\ polling'.trading_thread = polling.trading_thread
               /\ ~polling'.self.is_running
       /\ polling.self.emergency_stop /\ call'.op = "_trading_loop.while"
            => polling'.trading_thread.pc = "ended"]_vars

\* the account was in order when the trader was made, its loop has run and
\* was ended by the loss check, and the start_trading that came later was
\* refused
C38_Witness ==
    /\ call.op = "start_trading"
    /\ ret.value = "refused"
    /\ polling.self.emergency_stop
    /\ polling.trading_thread.pc = "ended"
    /\ polling.main_thread.pc = "idle"
    /\ DailyLossExceeded

(***************************************************************************)
(* The daily trade counter of the polling trader.  The broker's account    *)
(* outlives the process, position_manager does not: the account a trader   *)
(* is started on may hold what earlier runs bought, and _sync_portfolio    *)
(* copies all of it into the ledger.  Here the trader is made for the      *)
(* symbols ListedSymbols, the account holds one share of the first few of  *)
(* them, no new row arrives during the day and the day's rows make         *)
(* get_trading_signal hand back SELL for every symbol.                     *)
(***************************************************************************)
\* the broker's account with one share, bought at 100, of each of the first
\* held symbols of ListedSymbols
HeldAccount(held) ==
    [cash      |-> INITIAL_CAPITAL - 100 * held,
     positions |-> [symbol \in {ListedSymbols[i] : i \in 1..held} |->
                       [qty |-> 1, avg_entry_price |-> 100, current_price |-> 100]]]

InitDailyLimit ==
    /\ initial_capital   = Capital
    /\ cash              = Capital
    /\ positions         = << >>
    /\ trades            = << >>
    /\ daily_values      = << >>
    /\ portfolio_history = << >>
    /\ total_commission  = 0
    /\ total_trades      = 0
    /\ winning_trades    = 0
    /\ losing_trades     = 0
    /\ backtester        = StockBacktester(Capital)
    /\ risk              = RiskManager(INITIAL_CAPITAL)
    /\ applied_filter    = RiskManager(INITIAL_CAPITAL).market_filter_state
    /\ run               = Simulation(<< >>)
    /\ trader            = PaperTrader(<< >>, << >>, FALSE)
    /\ polling           \in {[Polling(FALSE, INITIAL_CAPITAL) EXCEPT
                                  !.self = AlpacaPaperTrader(ListedSymbols, FALSE),
                                  !.api = HeldAccount(held)] :
                                 held \in 0..Len(ListedSymbols)}
    /\ modules           = Modules
    /\ wall_clock        = 0
    /\ traders           = << >>
    /\ call              = [op |-> "PaperTrader", args |-> [symbols |-> ListedSymbols]]
    /\ ret               = [raised |-> FALSE, value |-> "None"]
    /\ logged            = ""

\* the trading thread at the test of its while statement
DailyLimitLoopWhile ==
    /\ polling.trading_thread.pc = "while"
    /\ \E market_open \in BOOLEAN, market_filter \in AnalyzerFilters :
           TradingThreadStands(trading_loop_while(World, market_open, market_filter),
                               market_filter)

\* the trading thread at the head of its for statement: the collector has no
\* new row, the signal is SELL and the broker accepts the order
DailyLimitLoopFor ==
    /\ polling.trading_thread.pc = "for"
    /\ TradingThreadTurned(
           trading_loop_for(World, polling.trading_thread.index,
                            polling.trading_thread.market_filter, 0,
                            [symbol |-> polling.self.symbols[polling.trading_thread.index],
                             signal |-> "SELL", confidence |-> Frac(7, 10)],
                            TRUE),
           polling.self.symbols[polling.trading_thread.index])

\* _monitoring_loop sleeps five minutes after each _sync_portfolio and the
\* trading thread one minute after each cycle: the runs followed here are
\* those in which the main thread stays in its first sleep
NextDailyLimit ==
    \/ DailyLimitLoopWhile
    \/ DailyLimitLoopFor
    \/ StartTrading
    \/ StopTrading
    \/ NextDay

SpecDailyLimit == InitDailyLimit /\ [][NextDailyLimit]_vars

\* C39: in the polling trader the number of trades of one calendar day never
\* exceeds the daily maximum of 20: daily_trade_count is at most 20 in every
\* reachable state, however many symbols a cycle handles
C39_DailyTradeCountAtMost20 == polling.self.daily_trade_count <= 20

\* a cycle that began with no trade of the day has sold all the symbols
C39_Witness ==
    /\ polling.self.daily_trade_count = Len(ListedSymbols)
    /\ polling.self.last_trade_date = wall_clock
    /\ polling.orders = Len(ListedSymbols)
    /\ polling.api.positions = << >>
    /\ call.op = "_trading_loop.for"
    /\ polling.trading_thread.pc = "while"


(***************************************************************************)
(* stop_trading and the trading thread.  Every sleep of _trading_loop is   *)
(* finite (60, 300, 600 or 3600 seconds) and the interpreter gives every   *)
(* thread that can run its turn, so a step of the trading thread that      *)
(* stays possible is taken in the end.                                     *)
(***************************************************************************)
\* ENABLED <<TradingThread>>_vars, from the guards of TradingLoopWhile and
\* TradingLoopFor: either step changes the thread's position or what it
\* hands back
TradingThreadEnabled ==
    \/ polling.trading_thread.pc = "for"
    \/ /\ polling.trading_thread.pc = "while"
       /\ polling.self.is_running /\ ~polling.self.emergency_stop
              => polling.orders < MaxOrders

\* WF_vars(TradingThread) with its ENABLED written out as TradingThreadEnabled:
\* a trading thread that can step for ever does step again and again
SpecPollingFair ==
    /\ InitPolling
    /\ [][NextPolling]_vars
    /\ \/ []<>(~TradingThreadEnabled)
       \/ []<><<TradingThread>>_vars

\* the trading thread has been started and has not left _trading_loop
TradingThreadAlive == polling.trading_thread.pc \in {"while", "for"}

\* C40: after stop_trading has set is_running to false the loop of the
\* trading thread exits after finitely many steps, and no trade is made in a
\* cycle that starts after the flag was cleared: while the flag is clear no
\* step sends an order to the broker or changes the account, and the trading
\* thread begins no turn of its for statement
C40_StopEndsWorker ==
    /\ [][~polling.self.is_running
             => /\ polling'.orders = polling.orders
                /\ polling'.api = polling.api
                /\ polling'.self.daily_trade_count = polling.self.daily_trade_count
                /\ polling'.trading_thread.pc = "for"
                       => polling'.trading_thread = polling.trading_thread]_vars
    /\ (~polling.self.is_running /\ TradingThreadAlive)
           ~> (polling.trading_thread.pc = "ended")

\* the trader traded, stop_trading cleared the flag and the while statement
\* of the trading thread then ended the loop
C40_Witness ==
    /\ call.op = "_trading_loop.while"
    /\ ret.value = "exit"
    /\ ~polling.self.is_running
    /\ ~polling.self.emergency_stop
    /\ polling.trading_thread.pc = "ended"
    /\ polling.orders = MaxOrders


=============================================================================
